---- MODULE Spec2Model ----
(***************************************************************************)
(* VoTales web client: the story-graph panel (StoryGraph.tsx) and the      *)
(* story-map fetching of the reader view (ReaderView.tsx) under the        *)
(* router of App.tsx.                                                      *)
(*                                                                         *)
(* Strings that the code builds or takes apart (edge keys, edge ids) are   *)
(* sequences of one-character strings, so that `${a}-${b}` is sequence     *)
(* concatenation and split('-') really splits.                             *)
(***************************************************************************)
EXTENDS Integers, Sequences, FiniteSets, TLC

VARIABLES
    \* ---- StoryGraph: props and what one render derives from them
    mapData,          \* prop mapData: Null or [nodes, edges]
    currentTaleId,    \* prop currentTaleId
    isLoading,        \* prop isLoading
    rendered,         \* FALSE until the component has rendered these props
    processedNodes,   \* useMemo result: render nodes
    processedEdges,   \* useMemo result: render edges
    panel,            \* which JSX branch StoryGraph returned
    layoutedNodes,    \* useMemo result: nodes with their layout position
    layoutedEdges,    \* useMemo result: edges after layout
    layoutInvoked,    \* this render has called getLayoutedElements
    threw,            \* this render has raised an exception
    \* ---- StoryGraph: the mounted surface
    nodesState,       \* const [nodes, setNodes, ...] = useNodesState(...)
    edgesState,       \* const [edges, setEdges, ...] = useEdgesState(...)
    syncDue,          \* setNodes/setEdges of the effect not yet rendered
    isExpanded,       \* useState(false)
    viewport,         \* what the React Flow camera frames
    timers,           \* setTimeout calls that are pending
    ownTimer,         \* the timer the latest CenterOnCurrentNode effect holds
    timerSeq,         \* number of timers set so far
    moves,            \* node gestures of the user so far
    \* ---- ReaderView under AnimatedRoutes
    location,         \* tale id of location.pathname (/tale/<id>)
    id,               \* useParams().id of the mounted ReaderView
    inst,             \* which ReaderView instance is mounted (one per key)
    storyMapData,     \* useState<StoryMapResponse | null>
    isMapLoading,     \* useState(false)
    fetches,          \* getStoryMap calls that have not settled
    contributions,    \* createTale calls that have not settled
    nextReq,          \* number of the next request
    last,             \* the handler step that ran last (history)
    \* ---- StoryGraph and its host: node activation
    onNodeClick,      \* prop onNodeClick is supplied
    intents,          \* the node ids onNodeClick has been called with
    clicks,           \* the node ids the user has clicked (history)
    \* ---- ReaderView: the tale query and the votes
    server,           \* the API's tales: votes, this user's votes, deleted
    data,             \* useQuery(['tale', id]).data: Null or the tale
    displayedChoices, \* useState<TaleChoice[]>([])
    user,             \* useState<User | null>(null)
    showLoginPrompt,  \* useState(false)
    votedTales,       \* useState<Set<string>>(new Set())
    optimisticVotes,  \* useState<Record<string, number>>({})
    voteReqs,         \* voteForTale calls that have not settled
    voteSeq,          \* number of vote requests sent so far
    \* ---- ReaderView: the paginated choices
    choicesPage,      \* useState(1)
    isLoadingMoreChoices, \* useState(false)
    totalChoices,     \* useState(0)
    choiceReqs,       \* getTaleChoices calls that have not settled
    choiceSeq,        \* number of getTaleChoices calls sent so far
    \* ---- TaleReader
    readerTaleId,     \* TaleReader's useState(initialTaleId): currentTaleId
    taleHistory,      \* useState<string[]>([])
    undoStack,        \* the states before the choices not yet undone (history)
    readerLast,       \* the TaleReader handler that ran last (history)
    \* ---- Navbar: the search box
    searchQuery,      \* useState('')
    searchResults,    \* useState<SearchResult[]>([])
    isSearching,      \* useState(false)
    showDropdown,     \* useState(false)
    timeoutId,        \* the pending debounce timer: Null or its query
    searchReqs,       \* searchTales calls that have not settled
    searchSeq,        \* number of searchTales calls sent so far
    \* ---- FeedbackModal and the state of its host
    isFeedbackOpen,   \* the host's state behind the isOpen prop
    feedbackSuccess,  \* useState(false): success
    feedbackLoading,  \* useState(false): loading
    feedbackError,    \* useState<string | null>(null): error
    feedbackReqs,     \* submitFeedback calls that have not settled
    feedbackTimers,   \* auto-close timers that are pending
    feedbackSession,  \* number of times the modal has been opened (history)
    feedbackSeq,      \* number of submissions sent so far
    \* ---- ToastProvider
    toasts,           \* useState<Toast[]>([])
    toastTimers,      \* the pending timer of each ToastItem: id -> due time
    now,              \* the clock
    toastSeq          \* number of toasts added so far

surfaceVars == <<nodesState, edgesState, syncDue, isExpanded, viewport,
                 timers, ownTimer, timerSeq, moves>>
graphVars  == <<mapData, currentTaleId, isLoading, rendered,
                processedNodes, processedEdges, panel,
                layoutedNodes, layoutedEdges, layoutInvoked, threw,
                surfaceVars>>
readerVars == <<location, id, inst, storyMapData, isMapLoading,
                fetches, contributions, nextReq, last>>
clickVars  == <<onNodeClick, intents, clicks>>
taleVars   == <<server, data, displayedChoices>>
voteVars   == <<user, showLoginPrompt, votedTales, optimisticVotes,
                voteReqs, voteSeq>>
choiceVars == <<choicesPage, isLoadingMoreChoices, totalChoices,
                choiceReqs, choiceSeq>>
histVars   == <<readerTaleId, taleHistory, undoStack, readerLast>>
searchVars == <<searchQuery, searchResults, isSearching, showDropdown,
                timeoutId, searchReqs, searchSeq>>
feedbackVars == <<isFeedbackOpen, feedbackSuccess, feedbackLoading,
                  feedbackError, feedbackReqs, feedbackTimers,
                  feedbackSession, feedbackSeq>>
toastVars  == <<toasts, toastTimers, now, toastSeq>>
widgetVars == <<histVars, searchVars, feedbackVars, toastVars>>
pageVars   == <<clickVars, taleVars, voteVars, choiceVars, widgetVars>>
\* pageVars without one of its parts
offClick   == <<taleVars, voteVars, choiceVars, widgetVars>>
offReaderPage == <<clickVars, widgetVars>>
offHist    == <<graphVars, readerVars, clickVars, taleVars, voteVars,
                choiceVars, searchVars, feedbackVars, toastVars>>
offSearch  == <<graphVars, readerVars, clickVars, taleVars, voteVars,
                choiceVars, histVars, feedbackVars, toastVars>>
offFeedback == <<graphVars, readerVars, clickVars, taleVars, voteVars,
                 choiceVars, histVars, searchVars, toastVars>>
offToast   == <<graphVars, readerVars, clickVars, taleVars, voteVars,
                choiceVars, histVars, searchVars, feedbackVars>>
vars == <<graphVars, readerVars, pageVars>>

-----------------------------------------------------------------------------
(* Values *)

Null      == [null |-> TRUE]          \* JavaScript null
Undefined == [undefined |-> TRUE]     \* JavaScript undefined

\* Opaque string ids; the API's ids are GUIDs, which contain '-'.
Id_a  == <<"a">>
Id_ab == <<"a", "-", "b">>
Id_bc == <<"b", "-", "c">>
Id_c  == <<"c">>
Id_zz == <<"z", "z">>                 \* an id that is no node of any map
NoTaleId == <<>>                      \* '' (the route has no id; no new tale)

AllNodeIds == <<Id_a, Id_ab, Id_bc, Id_c>>
NodeIds    == {AllNodeIds[i] : i \in DOMAIN AllNodeIds}

\* Bounds of the enumerated inputs
MaxEdges      == 3      \* longest edge list given to the aggregator
MaxVotes      == 2      \* largest vote count of an edge
MaxPanelEdges == 1      \* longest edge list in the panel-state inputs
MaxPanelVotes == 11     \* largest vote count in the panel-state inputs
MaxLayoutEdges == 3     \* longest edge list in the layout inputs

\* The choices of the enumerated story maps: tale a has three continuations
\* and tale a-b continues to c
ChoicePairs ==
    {<<Id_a, Id_ab>>, <<Id_a, Id_bc>>, <<Id_a, Id_c>>, <<Id_ab, Id_c>>}

\* StoryMapEdge values
StoryEdges ==
    {[sourceId |-> p[1], targetId |-> p[2], votes |-> v] :
        p \in ChoicePairs, v \in 0..MaxVotes}

\* StoryMapEdge values of the panel-state inputs
PanelEdges ==
    {[sourceId |-> p[1], targetId |-> p[2], votes |-> v] :
        p \in ChoicePairs, v \in 0..MaxPanelVotes}

SeqsUpTo(S, n) == UNION {[1..k -> S] : k \in 0..n}

MkNodes(ids) == [i \in DOMAIN ids |-> [id |-> ids[i]]]

FullNodes    == MkNodes(AllNodeIds)
PartialNodes == MkNodes(<<Id_a, Id_ab, Id_c>>)
LeafNodes    == MkNodes(<<Id_ab, Id_bc, Id_c>>)
NoNodes      == <<>>

-----------------------------------------------------------------------------
(* StoryGraph.tsx: pure helpers *)

MaxOf(S) == CHOOSE x \in S : \A y \in S : y <= x

\* `${sourceId}-${targetId}`
edgeKey(sourceId, targetId) == sourceId \o <<"-">> \o targetId

\* `e-${sourceId}-${targetId}`
edgeId(sourceId, targetId) == <<"e", "-">> \o sourceId \o <<"-">> \o targetId

\* edgeKey.split('-')[0]
RECURSIVE splitFirst(_)
splitFirst(s) ==
    IF s = <<>> \/ Head(s) = "-" THEN <<>>
    ELSE <<Head(s)>> \o splitFirst(Tail(s))

\* Key order of the edgesBySource Map: sources by first appearance
RECURSIVE sourceOrder(_, _)
sourceOrder(edges, seen) ==
    IF edges = <<>> THEN <<>>
    ELSE IF Head(edges).sourceId \in seen
         THEN sourceOrder(Tail(edges), seen)
         ELSE <<Head(edges).sourceId>>
              \o sourceOrder(Tail(edges), seen \cup {Head(edges).sourceId})

\* edgesBySource.get(sourceId): the group, in input order
edgesBySource(edges, sourceId) ==
    SelectSeq(edges, LAMBDA e : e.sourceId = sourceId)

\* The winners.set(key, targetId) calls one group makes, in order
GroupWinners_FirstWins(sourceEdges) ==
    LET maxVotes == MaxOf({sourceEdges[i].votes : i \in DOMAIN sourceEdges})
        first == CHOOSE i \in DOMAIN sourceEdges :
                    /\ sourceEdges[i].votes = maxVotes
                    /\ \A j \in 1..(i - 1) : sourceEdges[j].votes # maxVotes
    IN  IF maxVotes = 0 THEN <<>> ELSE <<sourceEdges[first]>>

GroupWinners_RunningMax(sourceEdges) ==
    LET best(i) == MaxOf({sourceEdges[j].votes : j \in 1..i})
        keep == {i \in DOMAIN sourceEdges :
                    sourceEdges[i].votes = best(i) /\ best(i) # 0}
        pick[n \in 0..Len(sourceEdges)] ==
            IF n = 0 THEN <<>>
            ELSE IF n \in keep THEN Append(pick[n - 1], sourceEdges[n])
                 ELSE pick[n - 1]
    IN  pick[Len(sourceEdges)]

GroupWinners(sourceEdges) ==
    LET maxVotes == MaxOf({sourceEdges[i].votes : i \in DOMAIN sourceEdges})
    IN  IF maxVotes = 0 THEN <<>>
        ELSE SelectSeq(sourceEdges, LAMBDA e : e.votes = maxVotes)

RECURSIVE winnerCalls(_, _)
winnerCalls(edges, sources) ==
    IF sources = <<>> THEN <<>>
    ELSE LET ws == GroupWinners(edgesBySource(edges, Head(sources)))
         IN  [i \in DOMAIN ws |->
                 [key |-> edgeKey(Head(sources), ws[i].targetId),
                  targetId |-> ws[i].targetId]]
             \o winnerCalls(edges, Tail(sources))

\* processGoldenPath: the Map<string, string> of winners; a later set() of
\* the same key replaces the value
processGoldenPath(edges) ==
    LET calls == winnerCalls(edges, sourceOrder(edges, {}))
        lastOf(k) == MaxOf({i \in DOMAIN calls : calls[i].key = k})
    IN  [k \in {calls[i].key : i \in DOMAIN calls} |-> calls[lastOf(k)].targetId]

\* The winnerNodes Set built from the golden path
winnerNodes(goldenPath) ==
    {splitFirst(k) : k \in DOMAIN goldenPath}
        \cup {goldenPath[k] : k \in DOMAIN goldenPath}

\* `${n}` of a non-negative integer: its decimal digits
Digits == <<"0", "1", "2", "3", "4", "5", "6", "7", "8", "9">>

RECURSIVE numToString(_)
numToString(n) ==
    IF n < 10 THEN <<Digits[n + 1]>>
    ELSE numToString(n \div 10) \o <<Digits[(n % 10) + 1]>>

\* label: edge.votes > 0 ? `${edge.votes}` : undefined
voteLabel_Always(votes) == [text |-> numToString(votes)]

voteLabel(votes) ==
    IF votes > 0 THEN [text |-> numToString(votes)] ELSE Undefined

\* !(!mapData || !mapData.nodes || mapData.nodes.length === 0)
hasNodes(md) == md # Null /\ "nodes" \in DOMAIN md /\ md.nodes # <<>>

\* First useMemo, nodes
buildNodes_FallbackCurrent(md, cur) ==
    IF ~hasNodes(md) THEN <<>>
    ELSE LET wn == winnerNodes(processGoldenPath(md.edges))
             found == \E i \in DOMAIN md.nodes : md.nodes[i].id = cur
         IN  [i \in DOMAIN md.nodes |->
                 [id |-> md.nodes[i].id,
                  isCurrent |-> md.nodes[i].id = cur \/ (~found /\ i = 1),
                  isOnWinnerPath |-> md.nodes[i].id \in wn]]

buildNodes(md, cur) ==
    IF ~hasNodes(md) THEN <<>>
    ELSE LET wn == winnerNodes(processGoldenPath(md.edges))
         IN  [i \in DOMAIN md.nodes |->
                 [id |-> md.nodes[i].id,
                  isCurrent |-> md.nodes[i].id = cur,
                  isOnWinnerPath |-> md.nodes[i].id \in wn]]

\* First useMemo, edges
buildEdges(md) ==
    IF ~hasNodes(md) THEN <<>>
    ELSE LET goldenPath == processGoldenPath(md.edges)
         IN  [i \in DOMAIN md.edges |->
                 LET edge == md.edges[i]
                     isWinner == edgeKey(edge.sourceId, edge.targetId)
                                    \in DOMAIN goldenPath
                 IN  [id |-> edgeId(edge.sourceId, edge.targetId),
                      source |-> edge.sourceId,
                      target |-> edge.targetId,
                      animated |-> isWinner,
                      label |-> voteLabel(edge.votes)]]

\* The branch StoryGraph returns
panelOf_EmptyFirst(loading, md, pNodes) ==
    IF md = Null \/ pNodes = <<>> THEN "empty"
    ELSE IF loading THEN "loading"
    ELSE "graph"

panelOf(loading, md, pNodes) ==
    IF loading THEN "loading"
    ELSE IF md = Null \/ pNodes = <<>> THEN "empty"
    ELSE "graph"

-----------------------------------------------------------------------------
(* getLayoutedElements and the dagre graph it lays out *)

NodeWidth  == 180       \* g.setNode(node.id, { width: 180, height: 50 })
NodeHeight == 50
RankSep    == 120       \* g.setGraph({ rankdir: 'LR', nodesep: 60, ranksep: 120 })
NodeSep    == 60

MaxRank == 3            \* largest rank of an enumerated layering

\* g with every edge set from target to source
dagreGraphOf_Reversed(rNodes, rEdges) ==
    LET labelled == {rNodes[i].id : i \in DOMAIN rNodes}
        pairs == {<<rEdges[i].target, rEdges[i].source>> : i \in DOMAIN rEdges}
    IN  [labelled |-> labelled,
         nodes |-> labelled \cup {p[1] : p \in pairs} \cup {p[2] : p \in pairs},
         edges |-> pairs]

\* g after the setNode and setEdge calls. setNode gives a node its label;
\* setEdge(v, w) also creates v or w when g has no such node, without label.
\* g is no multigraph: a repeated pair is one edge.
dagreGraphOf(rNodes, rEdges) ==
    LET labelled == {rNodes[i].id : i \in DOMAIN rNodes}
        pairs == {<<rEdges[i].source, rEdges[i].target>> : i \in DOMAIN rEdges}
    IN  [labelled |-> labelled,
         nodes |-> labelled \cup {p[1] : p \in pairs} \cup {p[2] : p \in pairs},
         edges |-> pairs]

\* The rank assignments dagre.layout may settle on for an acyclic g: every
\* edge leads to a higher rank (minlen), and the lowest rank is 0
Layerings(g) ==
    {r \in [g.nodes -> 0..MaxRank] :
        /\ \A p \in g.edges : r[p[2]] > r[p[1]]
        /\ g.nodes # {} => \E v \in g.nodes : r[v] = 0}

\* One of them: the longest-path ranks (f @@ <<>> is f, held as a table)
RECURSIVE longestPathRank(_, _)
longestPathRank(g, v) ==
    LET preds == {p[1] : p \in {q \in g.edges : q[2] = v}}
    IN  IF preds = {} THEN 0
        ELSE 1 + MaxOf({longestPathRank(g, u) : u \in preds})

CanonLayering(g) == [v \in g.nodes |-> longestPathRank(g, v)] @@ <<>>

\* rankdir 'LR': the ranks are columns. A column is as wide as its widest
\* node (a node without label has width 0), columns are ranksep apart, and
\* x is the centre of the column
rankWidth(g, r, k) ==
    IF \E v \in g.labelled : r[v] = k THEN NodeWidth ELSE 0

RECURSIVE rankLeft(_, _, _)
rankLeft(g, r, k) ==
    IF k = 0 THEN 0
    ELSE rankLeft(g, r, k - 1) + rankWidth(g, r, k - 1) + RankSep

\* Within a column the nodes are nodesep apart; the model orders a column
\* by id, and y is the centre of the node's row
rowOf(g, r, v) ==
    LET idx(u) == CHOOSE i \in DOMAIN AllNodeIds : AllNodeIds[i] = u
    IN  Cardinality({u \in g.nodes : r[u] = r[v] /\ idx(u) < idx(v)})

\* g.node(v) after dagre.layout(g): the label with its coordinates, or
\* undefined for a node that has no label
gNode(g, r, v) ==
    IF v \in g.labelled
    THEN [x |-> rankLeft(g, r, r[v]) + (rankWidth(g, r, r[v]) \div 2),
          y |-> rowOf(g, r, v) * (NodeHeight + NodeSep) + (NodeHeight \div 2)]
    ELSE Undefined

\* g.node(v) of every node of g after dagre.layout(g), held as a table
dagreLayout(g, r) == [v \in g.nodes |-> gNode(g, r, v)] @@ <<>>

\* layoutedNodes: nodes.map(node => ({ ...node, position })), reading the
\* coordinates at[node.id]; reading .x of undefined raises a TypeError
placedNodes(rNodes, at) ==
    [i \in DOMAIN rNodes |->
        [id |-> rNodes[i].id,
         isCurrent |-> rNodes[i].isCurrent,
         isOnWinnerPath |-> rNodes[i].isOnWinnerPath,
         position |-> [x |-> at[rNodes[i].id].x - 90,
                       y |-> at[rNodes[i].id].y - 25]]]

layoutedElements_ConnectedOnly(rNodes, rEdges, at) ==
    LET ends == {rEdges[i].source : i \in DOMAIN rEdges}
                    \cup {rEdges[i].target : i \in DOMAIN rEdges}
    IN  [threw |-> FALSE,
         nodes |-> placedNodes(SelectSeq(rNodes, LAMBDA n : n.id \in ends), at),
         edges |-> rEdges]

layoutedElements_AllGraphNodes(rNodes, rEdges, at) ==
    IF \E v \in DOMAIN at : at[v] = Undefined
    THEN [threw |-> TRUE, nodes |-> <<>>, edges |-> <<>>]
    ELSE [threw |-> FALSE, nodes |-> placedNodes(rNodes, at), edges |-> rEdges]

layoutedElements(rNodes, rEdges, at) ==
    IF \E i \in DOMAIN rNodes : at[rNodes[i].id] = Undefined
    THEN [threw |-> TRUE, nodes |-> <<>>, edges |-> <<>>]
    ELSE [threw |-> FALSE, nodes |-> placedNodes(rNodes, at), edges |-> rEdges]

\* getLayoutedElements(nodes, edges) when dagre.layout settles on ranks r
getLayoutedElements(rNodes, rEdges, r) ==
    layoutedElements(rNodes, rEdges,
                     dagreLayout(dagreGraphOf(rNodes, rEdges), r))

\* Second useMemo
layoutMemo_AlwaysLayout(pNodes, pEdges, r) ==
    [invoked |-> TRUE] @@ getLayoutedElements(pNodes, pEdges, r)

layoutMemo(pNodes, pEdges, r) ==
    IF pNodes = <<>>
    THEN [invoked |-> FALSE, threw |-> FALSE, nodes |-> <<>>, edges |-> <<>>]
    ELSE [invoked |-> TRUE] @@ getLayoutedElements(pNodes, pEdges, r)

-----------------------------------------------------------------------------
(* StoryGraph: one render of the props *)

\* Before the component is mounted
NoRender == /\ rendered = FALSE
            /\ processedNodes = <<>>
            /\ processedEdges = <<>>
            /\ panel = "none"
            /\ layoutedNodes = <<>>
            /\ layoutedEdges = <<>>
            /\ layoutInvoked = FALSE
            /\ threw = FALSE
            /\ nodesState = <<>>
            /\ edgesState = <<>>
            /\ syncDue = FALSE
            /\ isExpanded = FALSE
            /\ viewport = [kind |-> "none"]
            /\ timers = {}
            /\ ownTimer = 0
            /\ timerSeq = 0
            /\ moves = 0

\* Inputs of the aggregator and view-model builder
GraphMaps ==
    {[nodes |-> ns, edges |-> es] :
        ns \in {FullNodes, PartialNodes}, es \in SeqsUpTo(StoryEdges, MaxEdges)}

\* Inputs of the layout: acyclic maps, with isolated nodes and with edges
\* to an id that is no node
LayoutMaps ==
    {[nodes |-> ns, edges |-> es] :
        ns \in {FullNodes, PartialNodes},
        es \in SeqsUpTo({e \in StoryEdges : e.votes = 1}, MaxLayoutEdges)}

\* Inputs of the panel branches: no map, a map without node list, and maps
\* with a node list
PanelMaps ==
    {Null} \cup
    {[edges |-> es] : es \in SeqsUpTo(PanelEdges, MaxPanelEdges)} \cup
    {[nodes |-> ns, edges |-> es] :
        ns \in {NoNodes, FullNodes, PartialNodes, LeafNodes},
        es \in SeqsUpTo(PanelEdges, MaxPanelEdges)}

\* What one evaluation of StoryGraph yields from its processed elements and
\* their layout: the memoised values and the branch that is returned
renderResult(md, loading, pNodes, pEdges, lay) ==
    [processedNodes |-> pNodes,
     processedEdges |-> pEdges,
     layoutedNodes |-> lay.nodes,
     layoutedEdges |-> lay.edges,
     layoutInvoked |-> lay.invoked,
     threw |-> lay.threw,
     panel |-> IF lay.threw THEN "error" ELSE panelOf(loading, md, pNodes)]

\* The second useMemo, applied to the result of the first
renderMemos(md, loading, pNodes, pEdges, r) ==
    renderResult(md, loading, pNodes, pEdges, layoutMemo(pNodes, pEdges, r))

\* StoryGraph({ mapData, currentTaleId, isLoading }) when dagre.layout settles
\* on the ranks r
StoryGraphRender(md, cur, loading, r) ==
    renderMemos(md, loading, buildNodes(md, cur), buildEdges(md), r)

\* The graph that the layout of these props is given
renderGraph(md, cur) == dagreGraphOf(buildNodes(md, cur), buildEdges(md))

\* CenterOnCurrentNode, the effect's condition: currentTaleId is set, there
\* are nodes, and one of them has that id
shouldCenter_AnyNodes(cur, ns) == cur # NoTaleId /\ ns # <<>>

shouldCenter(cur, ns) ==
    /\ cur # NoTaleId
    /\ ns # <<>>
    /\ \E i \in DOMAIN ns : ns[i].id = cur

\* The effect's cleanup: clearTimeout(timer)
clearTimeout_Forgotten(ts, n) == ts

clearTimeout(ts, n) == {t \in ts : t.n # n}

\* The cleanup of the previous run of the effect, then the effect with the
\* props (cur, ns): setTimeout(() => fitView(...), 100)
CenterEffect_NoTimer(cur, ns) ==
    /\ timers' = clearTimeout(timers, ownTimer)
    /\ ownTimer' = 0
    /\ timerSeq' = timerSeq

CenterEffect(cur, ns) ==
    IF shouldCenter(cur, ns)
    THEN /\ timers' = clearTimeout(timers, ownTimer)
                        \cup {[n |-> timerSeq + 1, target |-> cur]}
         /\ ownTimer' = timerSeq + 1
         /\ timerSeq' = timerSeq + 1
    ELSE /\ timers' = clearTimeout(timers, ownTimer)
         /\ ownTimer' = 0
         /\ timerSeq' = timerSeq

\* CenterOnCurrentNode is unmounted, or stays unmounted
CenterCleanup ==
    /\ timers' = clearTimeout(timers, ownTimer)
    /\ ownTimer' = 0
    /\ timerSeq' = timerSeq

\* The component is mounted with its props: first render, useNodesState and
\* useEdgesState take the laid out elements, React Flow fits the whole graph
\* (fitView prop), and the effects of the first commit run
Render(r) ==
    /\ ~rendered
    /\ panel = "none"
    /\ \E out \in {StoryGraphRender(mapData, currentTaleId, isLoading, r)} :
        /\ rendered' = TRUE
        /\ processedNodes' = out.processedNodes
        /\ processedEdges' = out.processedEdges
        /\ layoutedNodes' = out.layoutedNodes
        /\ layoutedEdges' = out.layoutedEdges
        /\ layoutInvoked' = out.layoutInvoked
        /\ threw' = out.threw
        /\ panel' = out.panel
        /\ nodesState' = out.layoutedNodes
        /\ edgesState' = out.layoutedEdges
        /\ viewport' = IF out.panel = "graph" THEN [kind |-> "all"]
                        ELSE viewport
        /\ IF out.panel = "graph"
              THEN CenterEffect(currentTaleId, out.layoutedNodes)
              ELSE CenterCleanup
        /\ UNCHANGED <<mapData, currentTaleId, isLoading,
                       syncDue, isExpanded, moves>>

-----------------------------------------------------------------------------
(* StoryGraph: the mounted surface, its props, the user and the timer *)

MaxTimers == 4          \* setTimeout calls in one run
MaxMoves  == 1          \* node gestures (drag, select) in one run

\* Props the host passes while the panel is open: no map, the map of four
\* tales, and a map that lacks tale b-c
ViewMaps ==
    {Null} \cup
    {[nodes |-> ns,
      edges |-> <<[sourceId |-> Id_a, targetId |-> Id_ab, votes |-> 1]>>] :
        ns \in {FullNodes, PartialNodes}}

ViewCurrents == {Id_bc, Id_c, NoTaleId}

\* The nodes the user's gestures are tried on
GestureNodes == {1, 3}

\* StoryGraphRender of every props value the host passes
ViewRender ==
    [pr \in ViewMaps \X ViewCurrents \X BOOLEAN |->
        StoryGraphRender(pr[1], pr[2], pr[3],
                         CanonLayering(renderGraph(pr[1], pr[2])))]

\* setNodes(layoutedNodes): the state becomes the laid out array
syncedNodes_KeepMoved(lNodes, prev) ==
    [i \in DOMAIN lNodes |->
        IF \E j \in DOMAIN prev : prev[j].id = lNodes[i].id
        THEN [lNodes[i] EXCEPT !.position =
                 prev[CHOOSE j \in DOMAIN prev :
                          prev[j].id = lNodes[i].id].position]
        ELSE lNodes[i]]

syncedNodes(lNodes, prev) == lNodes

\* The host passes new props: StoryGraph renders again. The useMemo results
\* are new when mapData or currentTaleId is; the effect that copies them
\* into the node and edge state then runs after this commit (syncDue).
\* CenterOnCurrentNode still gets the node state of before.
SetProps(md, cur, loading) ==
    /\ rendered
    /\ ~syncDue
    /\ timerSeq + 2 <= MaxTimers
    /\ <<md, cur, loading>> # <<mapData, currentTaleId, isLoading>>
    /\ \E out \in {ViewRender[<<md, cur, loading>>]} :
        \E recompute \in {md # mapData \/ cur # currentTaleId} :
        /\ mapData' = md
        /\ currentTaleId' = cur
        /\ isLoading' = loading
        /\ processedNodes' = out.processedNodes
        /\ processedEdges' = out.processedEdges
        /\ layoutedNodes' = out.layoutedNodes
        /\ layoutedEdges' = out.layoutedEdges
        /\ layoutInvoked' = (recompute /\ out.layoutInvoked)
        /\ threw' = out.threw
        /\ panel' = out.panel
        /\ syncDue' = recompute
        /\ viewport' = IF out.panel # "graph" THEN [kind |-> "none"]
                        ELSE IF panel # "graph" THEN [kind |-> "all"]
                        ELSE viewport
        /\ IF out.panel # "graph" THEN CenterCleanup
           ELSE IF panel = "graph" /\ cur = currentTaleId
                THEN UNCHANGED <<timers, ownTimer, timerSeq>>
                ELSE CenterEffect(cur, nodesState)
        /\ UNCHANGED <<rendered, nodesState, edgesState, isExpanded, moves>>

\* The effect of lines 232-235 has set the node and edge state: StoryGraph
\* renders again and CenterOnCurrentNode gets the new nodes array
SyncNodes ==
    /\ rendered
    /\ syncDue
    /\ syncDue' = FALSE
    /\ nodesState' = syncedNodes(layoutedNodes, nodesState)
    /\ edgesState' = layoutedEdges
    /\ IF panel = "graph"
          THEN CenterEffect(currentTaleId,
                            syncedNodes(layoutedNodes, nodesState))
          ELSE CenterCleanup
    /\ UNCHANGED <<mapData, currentTaleId, isLoading, rendered,
                   processedNodes, processedEdges, panel, layoutedNodes,
                   layoutedEdges, layoutInvoked, threw, isExpanded,
                   viewport, moves>>

\* What the node gestures leave alone
GestureFrame ==
    UNCHANGED <<mapData, currentTaleId, isLoading, rendered, processedNodes,
                processedEdges, panel, layoutedNodes, layoutedEdges,
                layoutInvoked, threw, edgesState, syncDue, isExpanded,
                viewport>>

\* The user drags node k: onNodesChange applies the position change and
\* sets a new nodes array
DragNode(k) ==
    /\ rendered /\ panel = "graph" /\ ~syncDue
    /\ moves < MaxMoves /\ timerSeq < MaxTimers
    /\ k \in DOMAIN nodesState
    /\ nodesState' = [nodesState EXCEPT ![k].position.x = @ + 1]
    /\ moves' = moves + 1
    /\ CenterEffect(currentTaleId, nodesState')
    /\ GestureFrame

isSelected(n) == "selected" \in DOMAIN n /\ n.selected

\* The user selects node k: onNodesChange applies the select change and
\* sets a new nodes array
SelectNode(k) ==
    /\ rendered /\ panel = "graph" /\ ~syncDue
    /\ moves < MaxMoves /\ timerSeq < MaxTimers
    /\ k \in DOMAIN nodesState
    /\ ~isSelected(nodesState[k])
    /\ nodesState' = [nodesState EXCEPT
                         ![k] = [selected |-> TRUE] @@ nodesState[k]]
    /\ moves' = moves + 1
    /\ CenterEffect(currentTaleId, nodesState')
    /\ GestureFrame

\* The user pans or zooms: only the camera of React Flow changes
PanZoom ==
    /\ rendered /\ panel = "graph"
    /\ viewport # [kind |-> "user"]
    /\ viewport' = [kind |-> "user"]
    /\ UNCHANGED <<mapData, currentTaleId, isLoading, rendered,
                   processedNodes, processedEdges, panel, layoutedNodes,
                   layoutedEdges, layoutInvoked, threw, nodesState,
                   edgesState, syncDue, isExpanded, timers, ownTimer,
                   timerSeq, moves>>

\* The expand button or the backdrop: setIsExpanded
ToggleExpanded_Remounts ==
    /\ rendered /\ panel = "graph"
    /\ isExpanded' = ~isExpanded
    /\ nodesState' = <<>>
    /\ edgesState' = <<>>
    /\ UNCHANGED <<mapData, currentTaleId, isLoading, rendered,
                   processedNodes, processedEdges, panel, layoutedNodes,
                   layoutedEdges, layoutInvoked, threw, syncDue, viewport,
                   timers, ownTimer, timerSeq, moves>>

ToggleExpanded ==
    /\ rendered /\ panel = "graph"
    /\ isExpanded' = ~isExpanded
    /\ UNCHANGED <<mapData, currentTaleId, isLoading, rendered,
                   processedNodes, processedEdges, panel, layoutedNodes,
                   layoutedEdges, layoutInvoked, threw, nodesState,
                   edgesState, syncDue, viewport, timers, ownTimer,
                   timerSeq, moves>>

\* The 100 ms of timer t are over: fitView({ nodes: [{ id }] })
FireTimer(t) ==
    /\ t \in timers
    /\ timers' = timers \ {t}
    /\ viewport' =
          IF rendered /\ panel = "graph"
                /\ \E i \in DOMAIN nodesState : nodesState[i].id = t.target
          THEN [kind |-> "node", id |-> t.target]
          ELSE viewport
    /\ UNCHANGED <<mapData, currentTaleId, isLoading, rendered,
                   processedNodes, processedEdges, panel, layoutedNodes,
                   layoutedEdges, layoutInvoked, threw, nodesState,
                   edgesState, syncDue, isExpanded, ownTimer, timerSeq,
                   moves>>

\* The host closes the panel: the effects are cleaned up, and this
\* instance is not rendered again
Unmount ==
    /\ rendered
    /\ rendered' = FALSE
    /\ panel' = "closed"
    /\ viewport' = [kind |-> "none"]
    /\ syncDue' = FALSE
    /\ CenterCleanup
    /\ UNCHANGED <<mapData, currentTaleId, isLoading, processedNodes,
                   processedEdges, layoutedNodes, layoutedEdges,
                   layoutInvoked, threw, nodesState, edgesState,
                   isExpanded, moves>>

-----------------------------------------------------------------------------
(* ReaderView.tsx under AnimatedRoutes (App.tsx) *)

MaxMounts        == 3   \* ReaderView instances mounted in one run
MaxRequests      == 5   \* requests (getStoryMap, createTale) sent in one run
MaxContributions == 1   \* createTale calls in flight at once

TaleIds  == {Id_a, Id_ab, Id_c}

\* What GET /Tales/<id>/map may answer for tale t
ServerMaps(t) ==
    {[forId |-> t, nodes |-> NoNodes, edges |-> <<>>],
     [forId |-> t, nodes |-> FullNodes,
      edges |-> <<[sourceId |-> Id_a, targetId |-> Id_ab, votes |-> 1]>>]}

Step(op, n, src, fid, live) ==
    [op |-> op, n |-> n, src |-> src, id |-> fid, live |-> live]

ReaderIdle ==
    /\ location = Id_a
    /\ id = Id_a
    /\ inst = 0
    /\ storyMapData = Null
    /\ isMapLoading = FALSE
    /\ fetches = {}
    /\ contributions = {}
    /\ nextReq = 1
    /\ last = Step("none", 0, "none", NoTaleId, FALSE)

\* No node has been clicked
ClickIdle ==
    /\ onNodeClick = TRUE
    /\ intents = <<>>
    /\ clicks = <<>>

\* The API has the tales a and a-b, none voted by this user; the reader
\* view has no tale data yet
TaleIdle ==
    /\ server = [votes |-> (Id_a :> 1) @@ (Id_ab :> 1),
                 voted |-> {}, deleted |-> {}]
    /\ data = Null
    /\ displayedChoices = <<>>

\* The state a ReaderView instance starts with
VoteIdle ==
    /\ user = Null
    /\ showLoginPrompt = FALSE
    /\ votedTales = {}
    /\ optimisticVotes = <<>>
    /\ voteReqs = {}
    /\ voteSeq = 0

\* The choices state a ReaderView instance starts with
ChoicesIdle ==
    /\ choicesPage = 1
    /\ isLoadingMoreChoices = FALSE
    /\ totalChoices = 0
    /\ choiceReqs = {}
    /\ choiceSeq = 0

\* The parts of the page that a specification leaves out are at rest
ReaderPageIdle == TaleIdle /\ VoteIdle /\ ChoicesIdle

\* TaleReader is not shown
HistIdle ==
    /\ readerTaleId = NoTaleId
    /\ taleHistory = <<>>
    /\ undoStack = <<>>
    /\ readerLast = "none"

\* Nothing has been typed into the search box
SearchIdle ==
    /\ searchQuery = <<>>
    /\ searchResults = <<>>
    /\ isSearching = FALSE
    /\ showDropdown = FALSE
    /\ timeoutId = Null
    /\ searchReqs = {}
    /\ searchSeq = 0

\* The feedback modal has not been opened
FeedbackIdle ==
    /\ isFeedbackOpen = FALSE
    /\ feedbackSuccess = FALSE
    /\ feedbackLoading = FALSE
    /\ feedbackError = Null
    /\ feedbackReqs = {}
    /\ feedbackTimers = {}
    /\ feedbackSession = 0
    /\ feedbackSeq = 0

\* No toast has been added
ToastIdle ==
    /\ toasts = <<>>
    /\ toastTimers = <<>>
    /\ now = 0
    /\ toastSeq = 0

WidgetIdle == HistIdle /\ SearchIdle /\ FeedbackIdle /\ ToastIdle
PageIdle == ClickIdle /\ ReaderPageIdle /\ WidgetIdle

GraphIdle ==
    /\ mapData = Null
    /\ currentTaleId = NoTaleId
    /\ isLoading = FALSE
    /\ NoRender

\* The motion.div is keyed by location.pathname: each pathname has its own
\* ReaderView instance, and a setState of an instance that is gone is ignored
isMounted_SharedState(i) == TRUE

isMounted(i) == i = inst

\* try { setStoryMapData(mapData) }
mapAfterResolve(f, m) == IF isMounted(f.inst) THEN m ELSE storyMapData

\* catch { setStoryMapData(null) } in the effect; the refetch only logs
mapAfterReject_KeepOnError(f) == storyMapData

mapAfterReject(f) ==
    IF isMounted(f.inst) /\ f.src = "effect" THEN Null ELSE storyMapData

\* finally { setIsMapLoading(false) } in the effect; the refetch has none
loadingAfterSettle_RefetchClears(f) ==
    IF isMounted(f.inst) THEN FALSE ELSE isMapLoading

loadingAfterSettle(f) ==
    IF isMounted(f.inst) /\ f.src = "effect" THEN FALSE ELSE isMapLoading

\* useEffect(() => { fetchMapData() }, [id]) up to the await
fetchMapData(i, t) == [n |-> nextReq, inst |-> i, id |-> t, src |-> "effect"]

\* navigate(`/tale/${choiceId}`) / navigate(`/tale/${nodeId}`)
Navigate(t) ==
    /\ t # location
    /\ location' = t
    /\ last' = Step("navigate", 0, "none", t, TRUE)
    /\ UNCHANGED <<id, inst, storyMapData, isMapLoading, fetches,
                   contributions, nextReq>>

\* AnimatePresence mode="wait": the view of the old pathname has left, the
\* view of the new pathname mounts with fresh state and runs its effects
MountView ==
    /\ id # location
    /\ inst < MaxMounts
    /\ nextReq <= MaxRequests
    /\ inst' = inst + 1
    /\ id' = location
    /\ storyMapData' = Null
    /\ isMapLoading' = TRUE
    /\ fetches' = fetches \cup {fetchMapData(inst + 1, location)}
    /\ nextReq' = nextReq + 1
    /\ last' = Step("mount", nextReq, "effect", location, TRUE)
    /\ UNCHANGED <<location, contributions>>

\* getStoryMap(id) resolves with m
ResolveFetch(f, m) ==
    /\ f \in fetches
    /\ storyMapData' = mapAfterResolve(f, m)
    /\ isMapLoading' = loadingAfterSettle(f)
    /\ fetches' = fetches \ {f}
    /\ last' = Step("resolve", f.n, f.src, f.id, f.inst = inst)
    /\ UNCHANGED <<location, id, inst, contributions, nextReq>>

\* getStoryMap(id) rejects
RejectFetch(f) ==
    /\ f \in fetches
    /\ storyMapData' = mapAfterReject(f)
    /\ isMapLoading' = loadingAfterSettle(f)
    /\ fetches' = fetches \ {f}
    /\ last' = Step("reject", f.n, f.src, f.id, f.inst = inst)
    /\ UNCHANGED <<location, id, inst, contributions, nextReq>>

\* ContributionForm.handleSubmit up to await createTale(...)
SubmitContribution ==
    /\ id = location
    /\ Cardinality(contributions) < MaxContributions
    /\ nextReq <= MaxRequests
    /\ contributions' = contributions \cup {[n |-> nextReq, inst |-> inst, id |-> id]}
    /\ nextReq' = nextReq + 1
    /\ last' = Step("submit", nextReq, "none", id, TRUE)
    /\ UNCHANGED <<location, id, inst, storyMapData, isMapLoading, fetches>>

\* createTale resolved: onSuccess(newTale.id) = handleContributionSuccess
handleContributionSuccess(c, newTaleId) ==
    /\ c \in contributions
    /\ nextReq <= MaxRequests
    /\ contributions' = contributions \ {c}
    /\ fetches' = fetches \cup
           {[n |-> nextReq, inst |-> c.inst, id |-> c.id, src |-> "refetch"]}
    /\ nextReq' = nextReq + 1
    /\ location' = IF newTaleId # NoTaleId THEN newTaleId ELSE location
    /\ last' = Step("contributed", nextReq, "refetch", c.id, c.inst = inst)
    /\ UNCHANGED <<id, inst, storyMapData, isMapLoading>>

\* createTale rejected: the form shows the error
ContributionFailure(c) ==
    /\ c \in contributions
    /\ contributions' = contributions \ {c}
    /\ last' = Step("failed", c.n, "none", c.id, c.inst = inst)
    /\ UNCHANGED <<location, id, inst, storyMapData, isMapLoading, fetches,
                   nextReq>>

-----------------------------------------------------------------------------
(* Specifications *)

-----------------------------------------------------------------------------
(* ReaderView.tsx: the tale query, the appreciation bar and the votes *)

MaxVoteRequests == 3    \* voteForTale calls in one run

MaxChoicePages == 3     \* pages of choices that tale a has
MaxChoiceRequests == 3  \* getTaleChoices calls in one run
MaxOtherVotes == 1      \* votes of other users that arrive in one run

VoteTales == {Id_a, Id_ab}      \* tale a has the one choice a-b
TheUser == [id |-> "u"]

\* record[key] ?? dflt
getOr(record, key, dflt) ==
    IF key \in DOMAIN record THEN record[key] ELSE dflt

\* { ...prev, [key]: value }
withKey(prev, key, value) ==
    [k \in DOMAIN prev \cup {key} |-> IF k = key THEN value ELSE prev[k]]

\* What GET /Tales/<t> answers in server state sv
fetchTale(sv, t) ==
    [id |-> t,
     votes |-> sv.votes[t],
     hasVoted |-> t \in sv.voted,
     isDeleted |-> t \in sv.deleted,
     choices |-> IF t = Id_a
                 THEN <<[id |-> Id_ab, votes |-> sv.votes[Id_ab]]>>
                 ELSE <<>>,
     totalChoices |-> IF t = Id_a THEN MaxChoicePages ELSE 0]

\* What GET /Tales/a/choices?page=<page> answers: the one choice of that
\* page
getTaleChoices(page) ==
    [items |-> <<[id |-> <<"c">> \o numToString(page), votes |-> 0]>>,
     page |-> page]

\* voteMutation.onMutate(taleId): the optimistic update
onMutate(voted, optimistic, taleId) ==
    [votedTales |-> voted \cup {taleId},
     optimisticVotes |->
        withKey(optimistic, taleId, getOr(optimistic, taleId, 0) + 1)]

\* voteMutation.onError(_error, taleId): the rollback
onError_ForgetAll(voted, optimistic, taleId) ==
    [votedTales |-> {}, optimisticVotes |-> <<>>]

onError(voted, optimistic, taleId) ==
    [votedTales |-> voted \ {taleId},
     optimisticVotes |->
        withKey(optimistic, taleId, getOr(optimistic, taleId, 1) - 1)]

\* votes={(data.votes ?? 0) + (optimisticVotes[data.id] ?? 0)}
displayedVotes(d, optimistic) == d.votes + getOr(optimistic, d.id, 0)

\* {choice.votes + (optimisticVotes[choice.id] ?? 0)}
choiceVotes(choice, optimistic) ==
    choice.votes + getOr(optimistic, choice.id, 0)

\* hasVoted={data.hasVoted || votedTales.has(data.id)}
hasVotedProp(d, voted) == d.hasVoted \/ d.id \in voted

\* handleVote(e, taleId) may call voteMutation.mutate(taleId)
mayVote_NoSession(u, voted, taleId) == taleId \notin voted

mayVote(u, voted, taleId) == u # Null /\ taleId \notin voted

\* handleVote(e, taleId), reached from src ("bar" or "choice")
handleVote(taleId, src) ==
    IF mayVote(user, votedTales, taleId)
    THEN /\ voteSeq < MaxVoteRequests
         /\ \E om \in {onMutate(votedTales, optimisticVotes, taleId)} :
              /\ votedTales' = om.votedTales
              /\ optimisticVotes' = om.optimisticVotes
         /\ voteSeq' = voteSeq + 1
         /\ voteReqs' = voteReqs \cup
              {[n |-> voteSeq + 1, inst |-> inst, taleId |-> taleId,
                optimistic |-> getOr(optimisticVotes, taleId, 0),
                voted |-> taleId \in votedTales,
                data |-> data]}
         /\ last' = Step("vote", voteSeq + 1, src, taleId, TRUE)
         /\ UNCHANGED <<user, showLoginPrompt>>
    ELSE /\ showLoginPrompt' = (showLoginPrompt \/ user = Null)
         /\ last' = Step("voteClick", 0, src, taleId, TRUE)
         /\ UNCHANGED <<user, votedTales, optimisticVotes, voteReqs,
                        voteSeq>>

VoteFrame ==
    UNCHANGED <<location, id, inst, storyMapData, isMapLoading, fetches,
                contributions, nextReq, taleVars, choiceVars>>

\* StoryActionBar.handleVoteClick: the heart of the displayed tale
ClickVoteBar ==
    /\ data # Null
    /\ IF ~data.isDeleted /\ ~hasVotedProp(data, votedTales)
       THEN handleVote(data.id, "bar")
       ELSE /\ last' = Step("voteClick", 0, "bar", data.id, FALSE)
            /\ UNCHANGED voteVars
    /\ VoteFrame

\* onClick={(e) => !data.isDeleted && handleVote(e, choice.id)}
ClickVoteChoice(i) ==
    /\ data # Null
    /\ i \in DOMAIN displayedChoices
    /\ IF ~data.isDeleted
       THEN handleVote(displayedChoices[i].id, "choice")
       ELSE /\ last' = Step("voteClick", 0, "choice",
                             displayedChoices[i].id, FALSE)
            /\ UNCHANGED voteVars
    /\ VoteFrame

\* POST /tales/<id>/vote succeeds: the server counts the vote; the
\* mutation has no onSuccess
ResolveVote(r) ==
    /\ r \in voteReqs
    /\ voteReqs' = voteReqs \ {r}
    /\ server' = [server EXCEPT !.votes[r.taleId] = @ + 1,
                                !.voted = @ \cup {r.taleId}]
    /\ last' = Step("voteResolved", r.n, "none", r.taleId, r.inst = inst)
    /\ UNCHANGED <<location, id, inst, storyMapData, isMapLoading, fetches,
                   contributions, nextReq, data, displayedChoices,
                   user, showLoginPrompt, votedTales, optimisticVotes,
                   voteSeq, choiceVars>>

\* POST /tales/<id>/vote fails: onError, whose setState calls reach only
\* the ReaderView instance that sent the vote
RejectVote(r) ==
    /\ r \in voteReqs
    /\ voteReqs' = voteReqs \ {r}
    /\ IF r.inst = inst
       THEN \E oe \in {onError(votedTales, optimisticVotes, r.taleId)} :
              /\ votedTales' = oe.votedTales
              /\ optimisticVotes' = oe.optimisticVotes
       ELSE UNCHANGED <<votedTales, optimisticVotes>>
    /\ last' = Step("voteRejected", r.n, "none", r.taleId, r.inst = inst)
    /\ UNCHANGED <<location, id, inst, storyMapData, isMapLoading, fetches,
                   contributions, nextReq, taleVars, user, showLoginPrompt,
                   voteSeq, choiceVars>>

\* The tale query has fetched or refetched (first load, invalidateQueries
\* of lines 306 and ContributionForm 69): data is the server's answer, and
\* the effect of lines 209-216 sets the displayed choices
TaleFetched ==
    /\ data # fetchTale(server, id)
    /\ data' = fetchTale(server, id)
    /\ displayedChoices' = data'.choices
    /\ totalChoices' = IF data'.totalChoices # 0 THEN data'.totalChoices
                       ELSE Len(data'.choices)
    /\ choicesPage' = 1
    /\ last' = Step("taleFetched", 0, "none", id, TRUE)
    /\ UNCHANGED <<location, id, inst, storyMapData, isMapLoading, fetches,
                   contributions, nextReq, server, voteVars,
                   isLoadingMoreChoices, choiceReqs, choiceSeq>>

\* checkSession / onAuthStateChange: setUser(session?.user ?? null)
SetUser(u) ==
    /\ user # u
    /\ user' = u
    /\ last' = Step("setUser", 0, "none", NoTaleId, TRUE)
    /\ UNCHANGED <<location, id, inst, storyMapData, isMapLoading, fetches,
                   contributions, nextReq, taleVars, showLoginPrompt,
                   votedTales, optimisticVotes, voteReqs, voteSeq,
                   choiceVars>>

\* The ReaderView of a new pathname starts with fresh state
MountVotes ==
    /\ data' = Null
    /\ displayedChoices' = <<>>
    /\ user' = Null
    /\ showLoginPrompt' = FALSE
    /\ votedTales' = {}
    /\ optimisticVotes' = <<>>
    /\ choicesPage' = 1
    /\ isLoadingMoreChoices' = FALSE
    /\ totalChoices' = 0
    /\ UNCHANGED <<server, voteReqs, voteSeq, choiceReqs, choiceSeq>>

\* The reader parts and the vote state, which the choices leave alone
ChoicesFrame ==
    UNCHANGED <<location, id, inst, storyMapData, isMapLoading, fetches,
                contributions, nextReq, voteVars>>

\* handleLoadMoreChoices up to the await; the button is rendered while
\* totalChoices > displayedChoices.length and disabled while loading
handleLoadMoreChoices ==
    /\ data # Null
    /\ totalChoices > Len(displayedChoices)
    /\ ~isLoadingMoreChoices
    /\ choiceSeq < MaxChoiceRequests
    /\ choicesPage < MaxChoicePages
    /\ isLoadingMoreChoices' = TRUE
    /\ choiceSeq' = choiceSeq + 1
    /\ choiceReqs' = choiceReqs \cup
          {[n |-> choiceSeq + 1, inst |-> inst, page |-> choicesPage + 1]}
    /\ last' = Step("loadMore", choiceSeq + 1, "none", id, TRUE)
    /\ UNCHANGED <<taleVars, choicesPage, totalChoices>>
    /\ ChoicesFrame

\* setDisplayedChoices(prev => [...prev, ...response.items])
appendedChoices(prev, items) == prev \o items

\* getTaleChoices resolves: the items are appended, the page is the one
\* that was asked for, and the finally clears the loading flag
ResolveChoices(r) ==
    /\ r \in choiceReqs
    /\ choiceReqs' = choiceReqs \ {r}
    /\ IF r.inst = inst
       THEN /\ displayedChoices' =
                 appendedChoices(displayedChoices, getTaleChoices(r.page).items)
            /\ choicesPage' = r.page
            /\ isLoadingMoreChoices' = FALSE
       ELSE UNCHANGED <<displayedChoices, choicesPage, isLoadingMoreChoices>>
    /\ last' = Step("choicesResolved", r.n, "none", id, r.inst = inst)
    /\ UNCHANGED <<server, data, totalChoices, choiceSeq>>
    /\ ChoicesFrame

\* getTaleChoices rejects: the catch logs, the finally clears the flag
RejectChoices(r) ==
    /\ r \in choiceReqs
    /\ choiceReqs' = choiceReqs \ {r}
    /\ isLoadingMoreChoices' = (isLoadingMoreChoices /\ r.inst # inst)
    /\ last' = Step("choicesRejected", r.n, "none", id, r.inst = inst)
    /\ UNCHANGED <<taleVars, choicesPage, totalChoices, choiceSeq>>
    /\ ChoicesFrame

\* Another user votes for tale a: the next answer of the tale query differs
OtherUserVotes ==
    /\ server.votes[Id_a] <= MaxOtherVotes
    /\ server' = [server EXCEPT !.votes[Id_a] = @ + 1]
    /\ last' = Step("otherVote", 0, "none", Id_a, FALSE)
    /\ UNCHANGED <<data, displayedChoices, choiceVars>>
    /\ ChoicesFrame

-----------------------------------------------------------------------------
(* TaleReader.tsx: the reading history *)

MaxHistory == 3         \* choices that are not undone, at most

\* Tale ids that the choices of a tale may carry
ReaderTales == {Id_a, Id_ab, Id_c}

\* handleChoiceClick(choiceId): the state it sets
choiceClicked(cur, history, choiceId) ==
    [currentTaleId |-> choiceId, taleHistory |-> Append(history, cur)]

\* handleGoBack(): the state it sets
goneBack_Oldest(cur, history) ==
    IF Len(history) > 0
    THEN [currentTaleId |-> Head(history), taleHistory |-> Tail(history)]
    ELSE [currentTaleId |-> cur, taleHistory |-> history]

goneBack(cur, history) ==
    IF Len(history) > 0
    THEN [currentTaleId |-> history[Len(history)],
          taleHistory |-> SubSeq(history, 1, Len(history) - 1)]
    ELSE [currentTaleId |-> cur, taleHistory |-> history]

\* The reader clicks the choice that leads to choiceId
handleChoiceClick(choiceId) ==
    /\ readerTaleId # NoTaleId
    /\ Len(taleHistory) < MaxHistory
    /\ \E st \in {choiceClicked(readerTaleId, taleHistory, choiceId)} :
          /\ readerTaleId' = st.currentTaleId
          /\ taleHistory' = st.taleHistory
    /\ undoStack' = Append(undoStack, [currentTaleId |-> readerTaleId,
                                        taleHistory |-> taleHistory])
    /\ readerLast' = "choice"

\* The reader clicks Go Back (the handler also guards the empty history)
handleGoBack ==
    /\ readerTaleId # NoTaleId
    /\ \E st \in {goneBack(readerTaleId, taleHistory)} :
          /\ readerTaleId' = st.currentTaleId
          /\ taleHistory' = st.taleHistory
    /\ undoStack' = IF undoStack = <<>> THEN undoStack
                    ELSE SubSeq(undoStack, 1, Len(undoStack) - 1)
    /\ readerLast' = "goBack"

-----------------------------------------------------------------------------
(* Navbar.tsx: the debounced search *)

MaxSearches == 2        \* searchTales calls in one run

\* Texts the user may have in the search box
SearchTexts ==
    {<<>>, <<"t">>, <<"t", " ">>, <<"t", "a">>, <<"t", "a", "l">>}

\* query.trim()
RECURSIVE trimStart(_)
trimStart(str) ==
    IF str # <<>> /\ Head(str) = " " THEN trimStart(Tail(str)) ELSE str

RECURSIVE trimEnd(_)
trimEnd(str) ==
    IF str # <<>> /\ str[Len(str)] = " "
    THEN trimEnd(SubSeq(str, 1, Len(str) - 1)) ELSE str

trim(str) == trimEnd(trimStart(str))

\* What GET /Tales/search may answer for query: no tale, or the tale that
\* matches it
searchTales(query) == {<<>>, <<[id |-> <<"r">> \o trim(query)]>>}

\* handleSearchChange(e): setSearchQuery(query); debouncedSearch(query)
\* clears the pending timer and either empties the results or sets a new
\* timer of 300 ms
handleSearchChange(query) ==
    /\ query # searchQuery
    /\ searchQuery' = query
    /\ IF Len(trim(query)) < 2
       THEN /\ timeoutId' = Null
            /\ searchResults' = <<>>
            /\ showDropdown' = FALSE
       ELSE /\ timeoutId' = query
            /\ UNCHANGED <<searchResults, showDropdown>>
    /\ UNCHANGED <<isSearching, searchReqs, searchSeq>>

\* The 300 ms are over: setIsSearching(true) and searchTales(query, 5)
SearchTimerFires ==
    /\ timeoutId # Null
    /\ searchSeq < MaxSearches
    /\ timeoutId' = Null
    /\ isSearching' = TRUE
    /\ searchSeq' = searchSeq + 1
    /\ searchReqs' = searchReqs \cup
          {[n |-> searchSeq + 1, query |-> timeoutId]}
    /\ UNCHANGED <<searchQuery, searchResults, showDropdown>>

\* searchTales resolves with results
ResolveSearch(r, results) ==
    /\ r \in searchReqs
    /\ searchReqs' = searchReqs \ {r}
    /\ searchResults' = results
    /\ showDropdown' = (Len(results) > 0)
    /\ isSearching' = FALSE
    /\ UNCHANGED <<searchQuery, timeoutId, searchSeq>>

\* searchTales rejects
RejectSearch(r) ==
    /\ r \in searchReqs
    /\ searchReqs' = searchReqs \ {r}
    /\ searchResults' = <<>>
    /\ isSearching' = FALSE
    /\ UNCHANGED <<searchQuery, showDropdown, timeoutId, searchSeq>>

\* handleResultClick(id): the dropdown closes and the box is emptied
handleResultClick ==
    /\ showDropdown /\ searchResults # <<>>
    /\ showDropdown' = FALSE
    /\ searchQuery' = <<>>
    /\ UNCHANGED <<searchResults, isSearching, timeoutId, searchReqs,
                   searchSeq>>

\* Escape, Enter or a click outside: setShowDropdown(false)
CloseDropdown ==
    /\ showDropdown
    /\ showDropdown' = FALSE
    /\ UNCHANGED <<searchQuery, searchResults, isSearching, timeoutId,
                   searchReqs, searchSeq>>

-----------------------------------------------------------------------------
(* FeedbackModal.tsx and the host that opens it *)

MaxFeedbackSessions == 3    \* times the modal is opened in one run
MaxSubmissions == 3         \* submitFeedback calls in one run

\* The host opens the modal: isOpen becomes true, and the effect on
\* [isOpen] resets success and error
OpenFeedback ==
    /\ ~isFeedbackOpen
    /\ feedbackSession < MaxFeedbackSessions
    /\ isFeedbackOpen' = TRUE
    /\ feedbackSession' = feedbackSession + 1
    /\ feedbackSuccess' = FALSE
    /\ feedbackError' = Null
    /\ UNCHANGED <<feedbackLoading, feedbackReqs, feedbackTimers,
                   feedbackSeq>>

\* handleSubmit(e) up to the await, with a message that is empty or not
handleSubmit(messageEmpty) ==
    /\ isFeedbackOpen
    /\ ~feedbackLoading /\ ~feedbackSuccess
    /\ IF messageEmpty
       THEN /\ feedbackError' = "Please enter your feedback message"
            /\ UNCHANGED <<feedbackLoading, feedbackReqs, feedbackSeq>>
       ELSE /\ feedbackSeq < MaxSubmissions
            /\ feedbackLoading' = TRUE
            /\ feedbackError' = Null
            /\ feedbackSeq' = feedbackSeq + 1
            /\ feedbackReqs' = feedbackReqs \cup
                 {[n |-> feedbackSeq + 1, session |-> feedbackSession]}
    /\ UNCHANGED <<isFeedbackOpen, feedbackSuccess, feedbackTimers,
                   feedbackSession>>

\* submitFeedback resolves: setSuccess(true), setTimeout(..., 2000), and
\* the finally clears loading
ResolveFeedback(r) ==
    /\ r \in feedbackReqs
    /\ feedbackReqs' = feedbackReqs \ {r}
    /\ feedbackSuccess' = TRUE
    /\ feedbackTimers' = feedbackTimers \cup {r}
    /\ feedbackLoading' = FALSE
    /\ UNCHANGED <<isFeedbackOpen, feedbackError, feedbackSession,
                   feedbackSeq>>

\* submitFeedback rejects: setError, and the finally clears loading
RejectFeedback(r) ==
    /\ r \in feedbackReqs
    /\ feedbackReqs' = feedbackReqs \ {r}
    /\ feedbackError' = "Failed to submit feedback"
    /\ feedbackLoading' = FALSE
    /\ UNCHANGED <<isFeedbackOpen, feedbackSuccess, feedbackTimers,
                   feedbackSession, feedbackSeq>>

\* handleClose(): the user closes the modal
handleClose ==
    /\ isFeedbackOpen
    /\ feedbackError' = Null
    /\ feedbackSuccess' = FALSE
    /\ isFeedbackOpen' = FALSE
    /\ UNCHANGED <<feedbackLoading, feedbackReqs, feedbackTimers,
                   feedbackSession, feedbackSeq>>

\* The 2 s of timer t are over: onClose(); setSuccess(false)
FeedbackTimerFires(t) ==
    /\ t \in feedbackTimers
    /\ feedbackTimers' = feedbackTimers \ {t}
    /\ isFeedbackOpen' = FALSE
    /\ feedbackSuccess' = FALSE
    /\ UNCHANGED <<feedbackLoading, feedbackError, feedbackReqs,
                   feedbackSession, feedbackSeq>>

-----------------------------------------------------------------------------
(* Toast.tsx: ToastProvider, ToastContainer and ToastItem *)

MaxToasts == 2          \* toasts added in one run
MaxTime   == 4          \* the clock stops here
MaxDuration == 2        \* longest duration of a toast

\* Every render of ToastContainer hands each ToastItem a new onRemove, so
\* the effect of each item with a duration runs again: its cleanup clears
\* the item's timer and a new one is set, due a full duration from clock
itemTimers(ts, clock) ==
    LET timed == {i \in DOMAIN ts : ts[i].duration # 0}
    IN  [tid \in {ts[i].id : i \in timed} |->
            clock + ts[CHOOSE i \in timed : ts[i].id = tid].duration]

\* addToast(message, type, duration); addedAt is history
addToast(duration) ==
    /\ toastSeq < MaxToasts
    /\ toastSeq' = toastSeq + 1
    /\ toasts' = Append(toasts, [id |-> toastSeq + 1, duration |-> duration,
                                 addedAt |-> now])
    /\ toastTimers' = itemTimers(toasts', now)
    /\ UNCHANGED now

\* removeToast(id)
removeToast(tid) ==
    /\ toasts' = SelectSeq(toasts, LAMBDA toast : toast.id # tid)
    /\ toastTimers' = itemTimers(toasts', now)
    /\ UNCHANGED <<now, toastSeq>>

\* The user clicks the X of toast i
DismissToast(i) ==
    /\ i \in DOMAIN toasts
    /\ removeToast(toasts[i].id)

\* The timer of a ToastItem is due: onRemove
ToastTimerFires(tid) ==
    /\ tid \in DOMAIN toastTimers
    /\ toastTimers[tid] <= now
    /\ removeToast(tid)

\* Time passes, unless a timer is due
Tick ==
    /\ now < MaxTime
    /\ \A tid \in DOMAIN toastTimers : toastTimers[tid] > now
    /\ now' = now + 1
    /\ UNCHANGED <<toasts, toastTimers, toastSeq>>

-----------------------------------------------------------------------------
(* StoryGraph in ReaderView: node activation *)

MaxClicks == 2          \* node clicks in one run

\* StoryGraph.handleNodeClick(_event, node): the calls that onNodeClick has
\* received after it
handleNodeClick_Unguarded(supplied, calls, nodeId) == Append(calls, nodeId)

handleNodeClick(supplied, calls, nodeId) ==
    IF supplied THEN Append(calls, nodeId) ELSE calls

\* ReaderView.handleNodeClick(nodeId), the callback the host supplies:
\* navigate(`/tale/${nodeId}`)
hostNodeClick(nodeId) ==
    /\ location' = nodeId
    /\ last' = Step("navigate", 0, "none", nodeId, TRUE)
    /\ UNCHANGED <<id, inst, storyMapData, isMapLoading, fetches,
                   contributions, nextReq>>

\* The user clicks node k. React Flow may first select the node (a select
\* change through onNodesChange, when select is TRUE), then calls
\* onNodeClick = handleNodeClick
ClickNode(k, select) ==
    /\ rendered /\ panel = "graph" /\ ~syncDue
    /\ Len(clicks) < MaxClicks
    /\ k \in DOMAIN nodesState
    /\ clicks' = Append(clicks, nodesState[k].id)
    /\ IF select /\ ~isSelected(nodesState[k]) /\ timerSeq < MaxTimers
       THEN /\ nodesState' = [nodesState EXCEPT
                                 ![k] = [selected |-> TRUE] @@ nodesState[k]]
            /\ CenterEffect(currentTaleId, nodesState')
       ELSE UNCHANGED <<nodesState, timers, ownTimer, timerSeq>>
    /\ intents' = handleNodeClick(onNodeClick, intents, nodesState[k].id)
    /\ IF onNodeClick THEN hostNodeClick(nodesState[k].id)
                      ELSE UNCHANGED readerVars
    /\ UNCHANGED <<onNodeClick, moves, offClick>>
    /\ GestureFrame

\* The app opened on /tale/<t>: ReaderView mounted, its effect has run
Init ==
    /\ GraphIdle
    /\ PageIdle
    /\ location \in TaleIds
    /\ id = location
    /\ inst = 1
    /\ storyMapData = Null
    /\ isMapLoading = TRUE
    /\ fetches = {[n |-> 1, inst |-> 1, id |-> id, src |-> "effect"]}
    /\ contributions = {}
    /\ nextReq = 2
    /\ last = Step("mount", 1, "effect", id, TRUE)

Next ==
    \/ \E t \in TaleIds : Navigate(t) /\ UNCHANGED <<graphVars, pageVars>>
    \/ MountView /\ UNCHANGED <<graphVars, pageVars>>
    \/ \E f \in fetches : \E m \in ServerMaps(f.id) :
          ResolveFetch(f, m) /\ UNCHANGED <<graphVars, pageVars>>
    \/ \E f \in fetches : RejectFetch(f) /\ UNCHANGED <<graphVars, pageVars>>
    \/ SubmitContribution /\ UNCHANGED <<graphVars, pageVars>>
    \/ \E c \in contributions : \E t \in (TaleIds \ {c.id}) \cup {NoTaleId} :
          handleContributionSuccess(c, t) /\ UNCHANGED <<graphVars, pageVars>>
    \/ \E c \in contributions : ContributionFailure(c) /\ UNCHANGED <<graphVars, pageVars>>

Spec == Init /\ [][Next]_vars

\* The aggregator and the view-model builder on enumerated maps
InitGraph ==
    /\ ReaderIdle
    /\ PageIdle
    /\ mapData \in GraphMaps
    /\ currentTaleId = Id_ab
    /\ isLoading = FALSE
    /\ NoRender

NextGraph ==
    /\ Render(CanonLayering(renderGraph(mapData, currentTaleId)))
    /\ UNCHANGED <<readerVars, pageVars>>

SpecGraph == InitGraph /\ [][NextGraph]_vars

\* The layout on enumerated acyclic maps, for every rank assignment
InitLayout ==
    /\ ReaderIdle
    /\ PageIdle
    /\ mapData \in LayoutMaps
    /\ currentTaleId = Id_a
    /\ isLoading = FALSE
    /\ NoRender

NextLayout ==
    \E r \in Layerings(renderGraph(mapData, currentTaleId)) :
        Render(r) /\ UNCHANGED <<readerVars, pageVars>>

SpecLayout == InitLayout /\ [][NextLayout]_vars

\* The mounted surface
InitView ==
    /\ ReaderIdle
    /\ PageIdle
    /\ mapData \in ViewMaps
    /\ currentTaleId \in ViewCurrents
    /\ isLoading \in BOOLEAN
    /\ NoRender

NextView ==
    \/ /\ Render(CanonLayering(renderGraph(mapData, currentTaleId)))
       /\ UNCHANGED <<readerVars, pageVars>>
    \/ \E md \in ViewMaps : \E cur \in ViewCurrents : \E loading \in BOOLEAN :
          SetProps(md, cur, loading) /\ UNCHANGED <<readerVars, pageVars>>
    \/ SyncNodes /\ UNCHANGED <<readerVars, pageVars>>
    \/ \E k \in GestureNodes : DragNode(k) /\ UNCHANGED <<readerVars, pageVars>>
    \/ \E k \in GestureNodes : SelectNode(k) /\ UNCHANGED <<readerVars, pageVars>>
    \/ PanZoom /\ UNCHANGED <<readerVars, pageVars>>
    \/ ToggleExpanded /\ UNCHANGED <<readerVars, pageVars>>
    \/ \E t \in timers : FireTimer(t) /\ UNCHANGED <<readerVars, pageVars>>
    \/ Unmount /\ UNCHANGED <<readerVars, pageVars>>

SpecView == InitView /\ [][NextView]_vars

\* setTimeout runs a pending callback once its delay is over, and React
\* renders a state update that is queued
SpecViewLive ==
    /\ SpecView
    /\ WF_vars(SyncNodes /\ UNCHANGED <<readerVars, pageVars>>)
    /\ WF_vars(\E t \in timers : FireTimer(t) /\ UNCHANGED <<readerVars, pageVars>>)

\* The surface with a host that may or may not supply onNodeClick
InitClick ==
    /\ ReaderIdle
    /\ mapData \in ViewMaps
    /\ currentTaleId \in ViewCurrents
    /\ isLoading = FALSE
    /\ NoRender
    /\ onNodeClick \in BOOLEAN
    /\ intents = <<>>
    /\ clicks = <<>>
    /\ ReaderPageIdle
    /\ WidgetIdle

NextClick ==
    \/ /\ Render(CanonLayering(renderGraph(mapData, currentTaleId)))
       /\ UNCHANGED <<readerVars, pageVars>>
    \/ \E k \in GestureNodes : \E select \in BOOLEAN : ClickNode(k, select)
    \/ ToggleExpanded /\ UNCHANGED <<readerVars, pageVars>>
    \/ PanZoom /\ UNCHANGED <<readerVars, pageVars>>
    \/ \E t \in timers : FireTimer(t) /\ UNCHANGED <<readerVars, pageVars>>
    \/ Unmount /\ UNCHANGED <<readerVars, pageVars>>

SpecClick == InitClick /\ [][NextClick]_vars

\* The reader view of tale a with its votes
InitVote ==
    /\ GraphIdle
    /\ ClickIdle
    /\ location = Id_a
    /\ id = Id_a
    /\ inst = 1
    /\ storyMapData = Null
    /\ isMapLoading = FALSE
    /\ fetches = {}
    /\ contributions = {}
    /\ nextReq = 1
    /\ last = Step("none", 0, "none", NoTaleId, FALSE)
    /\ server \in {[votes |-> (Id_a :> 1) @@ (Id_ab :> 1),
                     voted |-> w, deleted |-> d] :
                        w \in {{}, {Id_a}}, d \in {{}, {Id_a}}}
    /\ data = Null
    /\ displayedChoices = <<>>
    /\ VoteIdle
    /\ ChoicesIdle
    /\ WidgetIdle

NextVote ==
    \/ ClickVoteBar /\ UNCHANGED <<graphVars, offReaderPage>>
    \/ \E i \in 1..1 : ClickVoteChoice(i) /\ UNCHANGED <<graphVars, offReaderPage>>
    \/ \E r \in voteReqs : ResolveVote(r) /\ UNCHANGED <<graphVars, offReaderPage>>
    \/ \E r \in voteReqs : RejectVote(r) /\ UNCHANGED <<graphVars, offReaderPage>>
    \/ TaleFetched /\ UNCHANGED <<graphVars, offReaderPage>>
    \/ \E u \in {Null, TheUser} : SetUser(u) /\ UNCHANGED <<graphVars, offReaderPage>>
    \/ \E t \in VoteTales :
          Navigate(t) /\ UNCHANGED <<graphVars, pageVars>>
    \/ MountView /\ MountVotes /\ UNCHANGED <<graphVars, offReaderPage>>

SpecVote == InitVote /\ [][NextVote]_vars

\* The reader view of tale a with its pages of choices
InitChoices ==
    /\ GraphIdle
    /\ PageIdle
    /\ location = Id_a
    /\ id = Id_a
    /\ inst = 1
    /\ storyMapData = Null
    /\ isMapLoading = FALSE
    /\ fetches = {}
    /\ contributions = {}
    /\ nextReq = 1
    /\ last = Step("none", 0, "none", NoTaleId, FALSE)

NextChoices ==
    \/ TaleFetched /\ UNCHANGED <<graphVars, offReaderPage>>
    \/ OtherUserVotes /\ UNCHANGED <<graphVars, offReaderPage>>
    \/ handleLoadMoreChoices /\ UNCHANGED <<graphVars, offReaderPage>>
    \/ \E r \in choiceReqs :
          ResolveChoices(r) /\ UNCHANGED <<graphVars, offReaderPage>>
    \/ \E r \in choiceReqs :
          RejectChoices(r) /\ UNCHANGED <<graphVars, offReaderPage>>
    \/ \E t \in VoteTales :
          Navigate(t) /\ UNCHANGED <<graphVars, pageVars>>
    \/ MountView /\ MountVotes /\ UNCHANGED <<graphVars, offReaderPage>>

SpecChoices == InitChoices /\ [][NextChoices]_vars

\* TaleReader, shown with some initial tale
InitReader ==
    /\ GraphIdle
    /\ ReaderIdle
    /\ ClickIdle /\ ReaderPageIdle
    /\ SearchIdle /\ FeedbackIdle /\ ToastIdle
    /\ readerTaleId \in ReaderTales
    /\ taleHistory = <<>>
    /\ undoStack = <<>>
    /\ readerLast = "none"

NextReader ==
    \/ \E choiceId \in ReaderTales :
          handleChoiceClick(choiceId) /\ UNCHANGED offHist
    \/ handleGoBack /\ UNCHANGED offHist

SpecReader == InitReader /\ [][NextReader]_vars

\* The search box of the navigation bar
InitSearch ==
    /\ GraphIdle
    /\ ReaderIdle
    /\ ClickIdle /\ ReaderPageIdle
    /\ HistIdle /\ SearchIdle /\ FeedbackIdle /\ ToastIdle

NextSearch ==
    \/ \E query \in SearchTexts :
          handleSearchChange(query) /\ UNCHANGED offSearch
    \/ SearchTimerFires /\ UNCHANGED offSearch
    \/ \E r \in searchReqs : \E results \in searchTales(r.query) :
          ResolveSearch(r, results) /\ UNCHANGED offSearch
    \/ \E r \in searchReqs : RejectSearch(r) /\ UNCHANGED offSearch
    \/ handleResultClick /\ UNCHANGED offSearch
    \/ CloseDropdown /\ UNCHANGED offSearch

SpecSearch == InitSearch /\ [][NextSearch]_vars

\* The feedback modal
InitFeedback ==
    /\ GraphIdle
    /\ ReaderIdle
    /\ ClickIdle /\ ReaderPageIdle
    /\ HistIdle /\ SearchIdle /\ FeedbackIdle /\ ToastIdle

NextFeedback ==
    \/ OpenFeedback /\ UNCHANGED offFeedback
    \/ \E messageEmpty \in BOOLEAN :
          handleSubmit(messageEmpty) /\ UNCHANGED offFeedback
    \/ \E r \in feedbackReqs : ResolveFeedback(r) /\ UNCHANGED offFeedback
    \/ \E r \in feedbackReqs : RejectFeedback(r) /\ UNCHANGED offFeedback
    \/ handleClose /\ UNCHANGED offFeedback
    \/ \E t \in feedbackTimers :
          FeedbackTimerFires(t) /\ UNCHANGED offFeedback

SpecFeedback == InitFeedback /\ [][NextFeedback]_vars

\* The toasts
InitToast ==
    /\ GraphIdle
    /\ ReaderIdle
    /\ ClickIdle /\ ReaderPageIdle
    /\ HistIdle /\ SearchIdle /\ FeedbackIdle /\ ToastIdle

NextToast ==
    \/ \E duration \in 0..MaxDuration :
          addToast(duration) /\ UNCHANGED offToast
    \/ \E i \in 1..MaxToasts : DismissToast(i) /\ UNCHANGED offToast
    \/ \E tid \in 1..MaxToasts : ToastTimerFires(tid) /\ UNCHANGED offToast
    \/ Tick /\ UNCHANGED offToast

SpecToast == InitToast /\ [][NextToast]_vars

\* The panel branches on enumerated props
InitPanel ==
    /\ ReaderIdle
    /\ PageIdle
    /\ mapData \in PanelMaps
    /\ currentTaleId \in {Id_a, Id_bc, Id_zz, NoTaleId}
    /\ isLoading \in BOOLEAN
    /\ NoRender

SpecPanel == InitPanel /\ [][NextGraph]_vars

-----------------------------------------------------------------------------
(* Properties of the golden path (SpecGraph) *)

\* maxVotes of a source, straight from the data model: the largest vote
\* count among the input edges that leave it
maxVotesFrom(edges, s) ==
    MaxOf({edges[i].votes : i \in {j \in DOMAIN edges : edges[j].sourceId = s}})

Viewed == rendered /\ hasNodes(mapData)

\* C2 (tie rule): every edge whose vote count equals the positive maximum of
\* its source is marked winner (animated), all ties at once.
Thm_C2_TieRule ==
    Viewed =>
        \A i \in DOMAIN mapData.edges :
            LET e == mapData.edges[i]
                m == maxVotesFrom(mapData.edges, e.sourceId)
            IN  (m > 0 /\ e.votes = m) => processedEdges[i].animated

\* Votes [2,2,1] from one source: both 2-vote edges win, the 1-vote edge not
Witness_C2_Tie ==
    /\ Viewed
    /\ \E i, j, k \in DOMAIN mapData.edges :
          LET e == mapData.edges
          IN  /\ e[i].sourceId = e[j].sourceId /\ e[j].sourceId = e[k].sourceId
              /\ e[i].targetId # e[j].targetId
              /\ e[i].votes = 2 /\ e[j].votes = 2 /\ e[k].votes = 1
              /\ processedEdges[i].animated /\ processedEdges[j].animated
              /\ ~processedEdges[k].animated

\* C3 (zero-vote rule): no edge of a source whose edges all have 0 votes is
\* marked winner.
Cex_C3_ZeroVoteRule ==
    Viewed =>
        \A i \in DOMAIN mapData.edges :
            maxVotesFrom(mapData.edges, mapData.edges[i].sourceId) = 0
                => ~processedEdges[i].animated

\* C4 (non-maximal edges never win): a render edge is marked winner only if
\* its own vote count is the maximum of its source, duplicates of one
\* (sourceId, targetId) pair judged each by its own count.
Cex_C4_OnlyMaxWins ==
    Viewed =>
        \A i \in DOMAIN mapData.edges :
            processedEdges[i].animated =>
                mapData.edges[i].votes
                    = maxVotesFrom(mapData.edges, mapData.edges[i].sourceId)

\* C5 (winner-path nodes): a render node is on the winner path exactly if it
\* is the source or the target of a winning edge, whatever its id looks like.
Cex_C5_WinnerPathNodes ==
    Viewed =>
        \A k \in DOMAIN processedNodes :
            processedNodes[k].isOnWinnerPath <=>
                \E i \in DOMAIN processedEdges :
                    /\ processedEdges[i].animated
                    /\ \/ processedEdges[i].source = processedNodes[k].id
                       \/ processedEdges[i].target = processedNodes[k].id

\* C6 (pair-keyed membership): edges of different (sourceId, targetId) pairs
\* have different membership keys and different render edge ids.
Cex_C6_KeyedByPair ==
    Viewed =>
        \A i, j \in DOMAIN mapData.edges :
            LET a == mapData.edges[i]
                b == mapData.edges[j]
            IN  <<a.sourceId, a.targetId>> # <<b.sourceId, b.targetId>> =>
                    /\ edgeKey(a.sourceId, a.targetId)
                          # edgeKey(b.sourceId, b.targetId)
                    /\ processedEdges[i].id # processedEdges[j].id

permute(seq, p) == [i \in DOMAIN seq |-> seq[p[i]]]

winnerKeys(rEdges) ==
    {edgeKey(rEdges[i].source, rEdges[i].target) :
        i \in {j \in DOMAIN rEdges : rEdges[j].animated}}

\* C7 (order independence): the aggregator run on any permutation of the
\* edge list yields the winner set that the rendered edges show.
Thm_C7_OrderIndependent ==
    Viewed =>
        \A p \in Permutations(DOMAIN mapData.edges) :
            DOMAIN processGoldenPath(permute(mapData.edges, p))
                = winnerKeys(processedEdges)

\* Three edges of one source, votes 1 then 2 then 2: only the later two win
Witness_C7_Reordered ==
    /\ Viewed
    /\ Len(mapData.edges) = 3
    /\ \A i \in 1..3 : mapData.edges[i].sourceId = mapData.edges[1].sourceId
    /\ mapData.edges[1].votes = 1
    /\ mapData.edges[2].votes = 2
    /\ mapData.edges[3].votes = 2
    /\ processedEdges[2].animated /\ processedEdges[3].animated
    /\ ~processedEdges[1].animated

-----------------------------------------------------------------------------
(* Properties of the panel branches (SpecPanel) *)

\* C10 (panel state): loading when isLoading; otherwise unavailable when the
\* map is null or has no nodes; otherwise the populated graph; one at a time.
Thm_C10_PanelState ==
    rendered =>
        /\ panel \in {"loading", "empty", "graph"}
        /\ panel = "loading" <=> isLoading
        /\ panel = "empty" <=>
              ~isLoading /\ (mapData = Null \/ ~hasNodes(mapData))
        /\ panel = "graph" <=>
              ~isLoading /\ mapData # Null /\ hasNodes(mapData)

\* Loading wins over a missing map
Witness_C10_LoadingNoMap ==
    rendered /\ isLoading /\ mapData = Null /\ panel = "loading"

\* The number a decimal string reads as
RECURSIVE digitsValue(_)
digitsValue(str) ==
    IF str = <<>> THEN 0
    ELSE 10 * digitsValue(SubSeq(str, 1, Len(str) - 1))
         + (CHOOSE d \in 0..9 : Digits[d + 1] = str[Len(str)])

\* C20 (vote-count label): a render edge has a label exactly if its votes
\* are positive, and the label then reads as that count; an edge with zero
\* votes has no label, never the text "0".
Thm_C20_VoteLabel ==
    Viewed =>
        \A i \in DOMAIN mapData.edges :
            LET votes == mapData.edges[i].votes
                label == processedEdges[i].label
            IN  /\ label # Undefined <=> votes > 0
                /\ votes > 0 =>
                      /\ label.text # <<>>
                      /\ Head(label.text) # "0"
                      /\ digitsValue(label.text) = votes
                /\ votes = 0 => label # [text |-> <<"0">>]

\* An edge with zero votes is rendered without label
Witness_C20_ZeroUnlabeled ==
    /\ Viewed
    /\ \E i \in DOMAIN mapData.edges :
          mapData.edges[i].votes = 0 /\ processedEdges[i].label = Undefined

\* C11 (isCurrent): a render node is current exactly if its id equals
\* currentTaleId; when currentTaleId is absent or matches no node, no node
\* is current and the view model still has one render node per input node.
Thm_C11_IsCurrent ==
    Viewed =>
        /\ Len(processedNodes) = Len(mapData.nodes)
        /\ \A k \in DOMAIN mapData.nodes :
              /\ processedNodes[k].id = mapData.nodes[k].id
              /\ processedNodes[k].isCurrent
                    <=> mapData.nodes[k].id = currentTaleId
        /\ (\A k \in DOMAIN mapData.nodes : mapData.nodes[k].id # currentTaleId)
              => \A k \in DOMAIN processedNodes : ~processedNodes[k].isCurrent

\* currentTaleId names no node of a populated map: the view model is built
\* and no node is current
Witness_C11_NoneCurrent ==
    /\ Viewed
    /\ currentTaleId \in {Id_zz, NoTaleId}
    /\ Len(processedNodes) = Len(mapData.nodes)
    /\ \A k \in DOMAIN processedNodes : ~processedNodes[k].isCurrent

-----------------------------------------------------------------------------
(* Properties of the layout (SpecLayout, SpecPanel) *)

idsOf(ns) == [i \in DOMAIN ns |-> ns[i].id]

\* The laid out x of the node with this id
xOf(nid) ==
    layoutedNodes[CHOOSE k \in DOMAIN layoutedNodes :
                      layoutedNodes[k].id = nid].position.x

isNode(nid) == \E k \in DOMAIN layoutedNodes : layoutedNodes[k].id = nid

\* C17 (layout totality): for a non-empty acyclic input the layout output
\* has every input node exactly once, in input order, each with a defined
\* coordinate, and the edge list is returned unchanged.
Thm_C17_LayoutTotal ==
    Viewed =>
        /\ layoutInvoked /\ ~threw
        /\ idsOf(layoutedNodes) = idsOf(mapData.nodes)
        /\ \A k \in DOMAIN layoutedNodes :
              /\ layoutedNodes[k].position.x \in Int
              /\ layoutedNodes[k].position.y \in Int
              /\ layoutedNodes[k].isCurrent = processedNodes[k].isCurrent
              /\ layoutedNodes[k].isOnWinnerPath
                    = processedNodes[k].isOnWinnerPath
              /\ \A j \in DOMAIN layoutedNodes :
                    layoutedNodes[j].id = layoutedNodes[k].id => j = k
        /\ layoutedEdges = processedEdges

\* A map of four nodes, one of them without any edge, has been laid out
Witness_C17_IsolatedNode ==
    /\ Viewed
    /\ layoutInvoked
    /\ Len(layoutedNodes) = 4
    /\ mapData.edges # <<>>
    /\ \E k \in DOMAIN layoutedNodes :
          /\ \A i \in DOMAIN mapData.edges :
                /\ mapData.edges[i].sourceId # layoutedNodes[k].id
                /\ mapData.edges[i].targetId # layoutedNodes[k].id
          /\ layoutedNodes[k].position.x \in Int

\* C18 (rank monotonicity): for every edge a -> b of an acyclic input whose
\* ends are nodes, node b is laid out strictly to the right of node a.
Thm_C18_RankMonotone ==
    Viewed =>
        \A i \in DOMAIN mapData.edges :
            LET e == mapData.edges[i]
            IN  (isNode(e.sourceId) /\ isNode(e.targetId))
                    => xOf(e.targetId) > xOf(e.sourceId)

\* The chain a -> a-b -> c has been laid out left to right
Witness_C18_Chain ==
    /\ Viewed
    /\ \E i, j \in DOMAIN mapData.edges :
          /\ mapData.edges[i].sourceId = Id_a
          /\ mapData.edges[i].targetId = Id_ab
          /\ mapData.edges[j].sourceId = Id_ab
          /\ mapData.edges[j].targetId = Id_c
    /\ xOf(Id_a) < xOf(Id_ab)
    /\ xOf(Id_ab) < xOf(Id_c)

inputIds == IF hasNodes(mapData) THEN idsOf(mapData.nodes) ELSE <<>>

dangling(e) ==
    \/ \A i \in DOMAIN mapData.nodes : mapData.nodes[i].id # e.sourceId
    \/ \A i \in DOMAIN mapData.nodes : mapData.nodes[i].id # e.targetId

\* C16 (malformed input tolerated): for a null map, a missing or empty node
\* list, an absent currentTaleId or an edge whose sourceId or targetId is no
\* node id, the render completes without exception, and the render nodes
\* are the input nodes: a dangling edge adds none and removes none.
Thm_C16_MalformedTolerated ==
    rendered =>
        /\ ~threw
        /\ panel \in {"loading", "empty", "graph"}
        /\ idsOf(processedNodes) = inputIds
        /\ idsOf(layoutedNodes) = inputIds
        /\ idsOf(nodesState) = inputIds

\* A map with an edge from or to an id that is no node has been laid out
Witness_C16_DanglingEdge ==
    /\ Viewed
    /\ \E i \in DOMAIN mapData.edges : dangling(mapData.edges[i])
    /\ layoutInvoked
    /\ ~threw
    /\ idsOf(layoutedNodes) = idsOf(mapData.nodes)

\* C19 (empty input skips layout): when the map is null or its node list is
\* missing or empty, getLayoutedElements is not called and the rendered
\* node list and edge list are both empty, whatever the input's edge list.
Thm_C19_EmptySkipsLayout ==
    (rendered /\ ~hasNodes(mapData)) =>
        /\ ~layoutInvoked
        /\ layoutedNodes = <<>> /\ layoutedEdges = <<>>
        /\ nodesState = <<>> /\ edgesState = <<>>

\* A map with edges but an empty node list has been rendered
Witness_C19_EdgesWithoutNodes ==
    /\ rendered
    /\ mapData # Null
    /\ "nodes" \in DOMAIN mapData
    /\ mapData.nodes = <<>>
    /\ mapData.edges # <<>>
    /\ ~layoutInvoked
    /\ edgesState = <<>>

-----------------------------------------------------------------------------
(* Properties of the viewport synchronizer (SpecView, SpecViewLive) *)

hasNode(ns, nid) == \E i \in DOMAIN ns : ns[i].id = nid

\* C12 (no stale camera jump): a timer that can still fire is the one of
\* the latest run of the effect, in a mounted graph, and its target is the
\* currentTaleId CenterOnCurrentNode has now and a node of the nodes it has
\* now; so no timer of earlier inputs or of an unmounted component fires,
\* and none is pending when no node matches.
Thm_C12_NoStaleJump ==
    \A t \in timers :
        /\ rendered
        /\ panel = "graph"
        /\ t.n = ownTimer
        /\ t.target = currentTaleId
        /\ hasNode(nodesState, t.target)

\* After the inputs changed and an earlier timer was set, the latest timer
\* has fired and the camera frames the current node
Witness_C12_LatestFired ==
    /\ rendered
    /\ panel = "graph"
    /\ moves = 0
    /\ timerSeq >= 2
    /\ ownTimer = timerSeq
    /\ timers = {}
    /\ viewport = [kind |-> "node", id |-> currentTaleId]
    /\ hasNode(nodesState, currentTaleId)

\* C13 (recenter only on genuine change): a timer is set only in a step
\* that changes the inputs (props, or the node state taking the new
\* layout) or mounts the component, never in a step of the user (pan or
\* zoom, selecting or dragging a node, toggling the expanded mode).
Cex_C13_RecenterOnlyOnChange ==
    [][ timerSeq' > timerSeq =>
            /\ moves' = moves
            /\ isExpanded' = isExpanded
            /\ \/ ~rendered
               \/ <<mapData, currentTaleId, isLoading>>'
                     # <<mapData, currentTaleId, isLoading>>
               \/ syncDue /\ ~syncDue' ]_vars

\* A map that has the current node is shown and the node state is the
\* layout of the latest props
Loaded ==
    /\ rendered
    /\ panel = "graph"
    /\ ~syncDue
    /\ shouldCenter(currentTaleId, nodesState)

\* The timer of the latest run of the effect is pending
Pending == Loaded /\ \E t \in timers : t.n = ownTimer

\* The timer of the latest run of the effect has fired, and the camera
\* frames the current node alone
Centered ==
    /\ Loaded
    /\ ownTimer # 0
    /\ \A t \in timers : t.n # ownTimer
    /\ viewport = [kind |-> "node", id |-> currentTaleId]

\* C14 (recenter liveness): once a map with the current node is loaded a
\* timer has been set for it, and fitView on that node eventually happens,
\* unless the inputs change again or the panel is unmounted before.
Thm_C14_RecenterLive ==
    /\ [](Loaded => ownTimer # 0)
    /\ Pending ~> (Centered \/ ~Loaded)

\* The camera frames the current node after the user's gesture had set
\* the timer anew
Witness_C14_Centered ==
    /\ Centered
    /\ moves > 0

\* C15 (derived state): a step that supplies a new mapData or
\* currentTaleId queues the copy of the new layout, and once that copy is
\* rendered the node and edge state are exactly the elements derived from
\* the new props: ids, flags, positions, edges.
Thm_C15_DerivedState ==
    [][ /\ (rendered /\ <<mapData, currentTaleId>>' # <<mapData, currentTaleId>>)
            => syncDue'
        /\ (syncDue /\ ~syncDue' /\ rendered') =>
              /\ nodesState'
                    = ViewRender[<<mapData, currentTaleId, isLoading>>']
                          .layoutedNodes
              /\ edgesState'
                    = ViewRender[<<mapData, currentTaleId, isLoading>>']
                          .layoutedEdges ]_vars

\* After the user's gesture new props came, and the node state is the new
\* layout of a map with other nodes
Witness_C15_MovedThenReplaced ==
    /\ rendered
    /\ ~syncDue
    /\ moves > 0
    /\ timerSeq >= 2
    /\ nodesState # <<>>
    /\ nodesState = layoutedNodes

-----------------------------------------------------------------------------
(* Properties of the story-map fetches (Spec) *)

\* C1 (stale-response guard): the map in effect is the map of the tale the
\* mounted view shows; a result of a fetch for an earlier tale id is never
\* in effect, in whatever order the fetches resolve.
Thm_C1_StaleGuard ==
    storyMapData # Null => storyMapData.forId = id

\* The fetch for an earlier tale resolved after the current tale's fetch had
\* delivered its map, and nothing is in flight any more
Witness_C1_LateStale ==
    /\ last.op = "resolve"
    /\ ~last.live
    /\ last.id # id
    /\ storyMapData # Null
    /\ storyMapData.forId = id
    /\ fetches = {}

Cex_C9_LoadingWhileAnyFetch ==
    isMapLoading <=> \E f \in fetches : f.src = "effect"

\* C9 (amended): isMapLoading is true exactly while the tale-id fetch of the
\* mounted view is unsettled.
Thm_C9_LoadingTracksOwnFetch ==
    isMapLoading <=> \E f \in fetches : f.src = "effect" /\ f.inst = inst

\* Two tale-id fetches overlap: the one of the view that has left and the
\* one of the mounted view
Witness_C9_Overlap ==
    /\ isMapLoading
    /\ \E f, g \in fetches :
          /\ f.src = "effect" /\ g.src = "effect"
          /\ f.inst # inst /\ g.inst = inst

-----------------------------------------------------------------------------
(* Node activation and expanded mode (SpecClick) *)

\* What a node of the surface shows apart from its selection and position
shown(ns) ==
    [i \in DOMAIN ns |->
        [id |-> ns[i].id, isCurrent |-> ns[i].isCurrent,
         isOnWinnerPath |-> ns[i].isOnWinnerPath]]

\* The data of the surface: the map, the node and edge sets with their
\* winner and current flags
surfaceData ==
    <<mapData, processedNodes, processedEdges, layoutedNodes, layoutedEdges,
      shown(nodesState), edgesState>>

\* C21: a click on node n calls onNodeClick exactly once with n's id, and
\* makes no call when the host supplies no callback; it leaves the map, the
\* nodes and edges with their flags and the expanded flag as they are; and
\* the location changes only through the host's callback, to /tale/<n>
Thm_C21_ClickEmitsIntent ==
    [][clicks' # clicks =>
        LET n == clicks'[Len(clicks')]
        IN  /\ intents' = IF onNodeClick THEN Append(intents, n) ELSE intents
            /\ surfaceData' = surfaceData
            /\ isExpanded' = isExpanded
            /\ location' = IF onNodeClick THEN n ELSE location]_vars

\* Tale b-c was clicked in a graph of tale a's page: the host got one call
\* with that id and navigated there
Witness_C21_Navigated ==
    /\ clicks = <<Id_bc>>
    /\ intents = <<Id_bc>>
    /\ location = Id_bc
    /\ \E i \in DOMAIN nodesState : isSelected(nodesState[i])

\* C22: a change of the expanded flag leaves the map, the rendered nodes and
\* edges and their winner and current flags as they are, sends no request
\* and calls no onNodeClick
Thm_C22_ExpandedPresentationOnly ==
    [][isExpanded' # isExpanded =>
        /\ surfaceData' = surfaceData
        /\ nodesState' = nodesState
        /\ fetches' = fetches /\ nextReq' = nextReq
        /\ intents' = intents
        /\ location' = location]_vars

\* The graph is expanded and still shows its nodes, after a click that the
\* host received
Witness_C22_Expanded ==
    /\ isExpanded
    /\ rendered /\ panel = "graph"
    /\ nodesState # <<>>
    /\ Len(intents) = 1

-----------------------------------------------------------------------------
(* Votes of the reader view (SpecVote) *)

\* The count the page shows for tale t, given the tale data d and the
\* optimistic votes: in the appreciation bar or on t's choice card
shownVotes(d, optimistic, t) ==
    IF d.id = t THEN displayedVotes(d, optimistic)
    ELSE choiceVotes(d.choices[CHOOSE i \in DOMAIN d.choices :
                                      d.choices[i].id = t], optimistic)

\* The voted mark the page shows for tale t
shownVoted(d, voted, t) ==
    IF d.id = t THEN hasVotedProp(d, voted) ELSE t \in voted

\* The optimistic entries of tale u are as before this step
entryKept(u) ==
    /\ getOr(optimisticVotes', u, 0) = getOr(optimisticVotes, u, 0)
    /\ (u \in votedTales') = (u \in votedTales)

\* What the page showed for the tale of vote request r before that vote
shownBefore(r) ==
    [votes |-> shownVotes(r.data, r.taleId :> r.optimistic, r.taleId),
     voted |-> shownVoted(r.data, IF r.voted THEN {r.taleId} ELSE {},
                          r.taleId)]

\* C23 as stated: the step that sends a vote for t raises t's shown count
\* by one and marks t voted; the step in which that request fails returns
\* t's shown count and voted mark to what they were before the vote; both
\* steps leave the optimistic entries of every other tale alone
Cex_C23_RollbackRestoresDisplay ==
    [][/\ voteSeq' > voteSeq =>
            /\ shownVotes(data', optimisticVotes', last'.id)
                 = shownVotes(data, optimisticVotes, last'.id) + 1
            /\ shownVoted(data', votedTales', last'.id)
            /\ \A u \in VoteTales \ {last'.id} : entryKept(u)
       /\ \A r \in voteReqs \ voteReqs' :
            (last'.op = "voteRejected" /\ r.inst = inst) =>
                /\ shownVotes(data', optimisticVotes', r.taleId)
                     = shownBefore(r).votes
                /\ shownVoted(data', votedTales', r.taleId)
                     = shownBefore(r).voted
                /\ \A u \in VoteTales \ {r.taleId} : entryKept(u)]_vars

\* C23, amended: the step that sends a vote for t raises t's shown count by
\* one and marks t voted; the step in which that request fails gives t's
\* optimistic entry and voted mark their values of before the vote, hence,
\* while the tale data is that of then, the shown count and mark of then;
\* both steps leave the entries of every other tale alone
Thm_C23_OptimisticRollback ==
    [][/\ voteSeq' > voteSeq =>
            LET t == last'.id
            IN  /\ shownVotes(data', optimisticVotes', t)
                     = shownVotes(data, optimisticVotes, t) + 1
                /\ shownVoted(data', votedTales', t)
                /\ \A u \in VoteTales \ {t} : entryKept(u)
       /\ \A r \in voteReqs \ voteReqs' :
            (last'.op = "voteRejected" /\ r.inst = inst) =>
                /\ getOr(optimisticVotes', r.taleId, 0) = r.optimistic
                /\ (r.taleId \in votedTales') = r.voted
                /\ data' = r.data =>
                     /\ shownVotes(data', optimisticVotes', r.taleId)
                          = shownBefore(r).votes
                     /\ shownVoted(data', votedTales', r.taleId)
                          = shownBefore(r).voted
                /\ \A u \in VoteTales \ {r.taleId} : entryKept(u)]_vars

\* The vote for one tale has failed and is rolled back while the vote for
\* the other tale is still shown
Witness_C23_RolledBackBesideOther ==
    /\ last.op = "voteRejected" /\ last.live
    /\ getOr(optimisticVotes, last.id, 0) = 0
    /\ last.id \notin votedTales
    /\ \E u \in VoteTales \ {last.id} :
          getOr(optimisticVotes, u, 0) = 1 /\ u \in votedTales

\* The votes of tale t that are not this user's
othersVotes(t) ==
    server.votes[t] - (IF t \in server.voted THEN 1 ELSE 0)

\* C25: no count on the page holds this user's vote twice: the count of the
\* displayed tale and of each choice is at most the others' votes plus one,
\* and it is the server's count once the data holds the user's vote
Cex_C25_NoDoubleCount ==
    data # Null =>
        /\ displayedVotes(data, optimisticVotes) <= othersVotes(data.id) + 1
        /\ \A i \in DOMAIN displayedChoices :
              choiceVotes(displayedChoices[i], optimisticVotes)
                  <= othersVotes(displayedChoices[i].id) + 1
        /\ (data.hasVoted /\ data.votes = server.votes[data.id]) =>
              displayedVotes(data, optimisticVotes) = server.votes[data.id]

-----------------------------------------------------------------------------
(* Paginated choices of the reader view (SpecChoices) *)

\* The initial choices of tale data d followed by the pages 2..page
RECURSIVE choicesThrough(_, _)
choicesThrough(d, page) ==
    IF page <= 1 THEN d.choices
    ELSE choicesThrough(d, page - 1) \o getTaleChoices(page).items

\* C27: while this view has no load-more request in flight, the displayed
\* choices are the tale's initial choices followed by the pages 2 to
\* choicesPage, each once and in order
Cex_C27_PagesConsistent ==
    (data # Null /\ \A r \in choiceReqs : r.inst # inst) =>
        displayedChoices = choicesThrough(data, choicesPage)

-----------------------------------------------------------------------------
(* The reading history of TaleReader (SpecReader) *)

\* C24: the history is a stack. Go Back on a history that is not empty
\* gives the tale and the history that were there before the most recent
\* choice not yet undone; Go Back on an empty history changes nothing; and
\* the history always lists, oldest first, the tales that were displayed
\* before the choices not yet undone
Thm_C24_HistoryIsStack ==
    /\ [](taleHistory = [i \in DOMAIN undoStack |->
                            undoStack[i].currentTaleId])
    /\ [][readerLast' = "goBack" =>
            IF taleHistory = <<>>
            THEN readerTaleId' = readerTaleId /\ taleHistory' = <<>>
            ELSE /\ readerTaleId' = undoStack[Len(undoStack)].currentTaleId
                 /\ taleHistory' = undoStack[Len(undoStack)].taleHistory]_vars

\* Three choices deep, then one Go Back: the reader is at the second tale
\* again with the first one left in the history
Witness_C24_BackAfterChoices ==
    /\ readerLast = "goBack"
    /\ Len(taleHistory) = 2
    /\ taleHistory[1] # taleHistory[2]
    /\ readerTaleId # taleHistory[2]

-----------------------------------------------------------------------------
(* The search box (SpecSearch) *)

\* C28: the answer to a search request replaces the results or opens the
\* dropdown only while the text of the box is still the query of that
\* request
Cex_C28_LatestQueryOnly ==
    [][\A r \in searchReqs \ searchReqs' :
          (searchResults' # searchResults \/ (showDropdown' /\ ~showDropdown))
              => r.query = searchQuery]_vars

-----------------------------------------------------------------------------
(* The feedback modal (SpecFeedback) *)

\* C29: the auto-close timer of a submission closes the modal, or resets
\* its success flag, only in the session in which that submission was made
Cex_C29_AutoCloseOwnSession ==
    [][\A t \in feedbackTimers \ feedbackTimers' :
          ((isFeedbackOpen /\ ~isFeedbackOpen')
                \/ (feedbackSuccess /\ ~feedbackSuccess'))
              => t.session = feedbackSession]_vars

-----------------------------------------------------------------------------
(* The toasts (SpecToast) *)

\* C30: a toast with a positive duration is gone once its duration has
\* passed since it was added, whatever was added or removed meanwhile
Cex_C30_ToastExpiryIndependent ==
    \A i \in DOMAIN toasts :
        toasts[i].duration > 0 =>
            now <= toasts[i].addedAt + toasts[i].duration

====
